---- MODULE Spec2Model ----
(***************************************************************************)
(* A model of holoduke/livescore-mcp (src/main.go).                        *)
(*                                                                         *)
(* Part I models the IP-keyed token-bucket rate limiter that guards the    *)
(* /message path: the request goroutines running rateLimiter.middleware,   *)
(* the mutex-guarded visitors map, the rate.Limiter buckets the map points *)
(* to, the background cleanup goroutine, and the wall clock.               *)
(*                                                                         *)
(* Time is counted in whole seconds.  A bucket's token count is kept in    *)
(* units of 1/RefillSec token, so that one second of elapsed time adds     *)
(* exactly one unit and one token is RefillSec units; this is exact for    *)
(* rate.Every(2*time.Second) on a clock that moves in whole seconds.       *)
(***************************************************************************)
EXTENDS Integers, Sequences, FiniteSets, TLC

\* ---------------------------------------------------------------- constants
\* rate.Every(2*time.Second): one token per RefillSec seconds (main.go:60)
RefillSec == 2
\* burst passed to newRateLimiter (main.go:60)
Burst == 10
\* time.Sleep(5 * time.Minute) in cleanup (main.go:141)
SweepSec == 300
\* 10*time.Minute idle threshold in cleanup (main.go:144)
IdleSec == 600
\* http.StatusTooManyRequests (main.go:167)
StatusTooManyRequests == 429
\* http.StatusMovedPermanently, the status of the mux's redirects
StatusMovedPermanently == 301
\* http.StatusOK (main.go:1022, 1215), also the status of a file served
StatusOK == 200
\* http.StatusNotFound, the file server's status for a file it has not
StatusNotFound == 404
\* the value of the Retry-After header and of retry_after in the body (main.go:166)
RetryAfterSec == 60

\* README, Usage Policy: "30 requests/min per IP" (part_001:75, main.go:59)
RatePerMin == 30
WindowSec == 60

\* ------------------------------------------------------------------- bounds
\* number of request goroutines that can be in flight at once
MaxProcs == 2
\* concurrent runs: clock advances and request arrivals in one behaviour
MaxTicks == 1
MaxRequests == 2
\* one client after another: clock advances, and requests of other clients
MaxSeqTicks == 2
MaxOthers == 1
\* a client that keeps the pace: clock advances, enough of them to spend a
\* whole burst at one request per refill interval and to have a sweep
MaxPaceTicks == 11
\* Allow calls counted beyond the burst in the second a bucket is created
MaxExcess == 2
\* the latest second at which the observed 60-second window may open
MaxWinStart == 2
\* upstream bodies: the integers 2^53 + n for n up to MaxBig
MaxBig == 3

Min(a, b) == IF a < b THEN a ELSE b

\* ------------------------------------------------------------- client input
\* A string that the code takes apart is a sequence of its pieces: a remote
\* address "10.0.0.1:5000" is <<"10.0.0.1", ":", "5000">>.

\* net.SplitHostPort: the host is what stands before the last colon, or
\* between the brackets that end just before it.  An address with no colon
\* ("missing port"), with a colon in an unbracketed host ("too many
\* colons"), with an opening bracket and no closing one just before the
\* last colon, or with a stray bracket, is an error, and every result of an
\* error is the empty string.
LastColon(addr) ==
    LET idx == { i \in 1..Len(addr) : addr[i] = ":" }
    IN  IF idx = {} THEN 0 ELSE CHOOSE i \in idx : \A j \in idx : j <= i
HasPiece(t, c) == \E j \in 1..Len(t) : t[j] = c
SplitHostPort(addr) ==
    LET i == LastColon(addr)
        failed == [host |-> <<>>, err |-> TRUE]
    IN  IF i = 0 THEN failed
        ELSE IF addr[1] = "["
        THEN LET ends == { j \in 1..Len(addr) : addr[j] = "]" }
                 end == CHOOSE j \in ends : \A m \in ends : j <= m
             IN  IF ends = {} THEN failed
                 ELSE IF end + 1 # i THEN failed
                 ELSE IF HasPiece(SubSeq(addr, 2, Len(addr)), "[") THEN failed
                 ELSE IF HasPiece(SubSeq(addr, end + 1, Len(addr)), "]") THEN failed
                 ELSE [host |-> SubSeq(addr, 2, end - 1), err |-> FALSE]
        ELSE IF HasPiece(SubSeq(addr, 1, i - 1), ":") THEN failed
        ELSE IF HasPiece(addr, "[") \/ HasPiece(addr, "]") THEN failed
        ELSE [host |-> SubSeq(addr, 1, i - 1), err |-> FALSE]
\* ip, _, _ := net.SplitHostPort(r.RemoteAddr) (main.go:154)
SplitHost(addr) == SplitHostPort(addr).host

\* middleware, lines 154-160: the rate-limit key of a request
ClientIPHostOnly(remoteAddr, fwd) ==
    IF fwd # <<>> THEN fwd ELSE SplitHost(remoteAddr)
ClientIP(remoteAddr, fwd) ==
    LET ip0 == SplitHost(remoteAddr)
        ip1 == IF ip0 = <<>> THEN remoteAddr ELSE ip0
    IN  IF fwd # <<>> THEN fwd ELSE ip1

\* The requests of the model: a client of its own address, a second client
\* whose remote address has no port, and that second client behind a proxy
\* that forwards for the first one's address (fwd <<>>: header absent or empty).
Client == [remoteAddr |-> <<"10.0.0.1", ":", "5000">>, fwd |-> <<>>]
Requests ==
    { Client,
      [remoteAddr |-> <<"10.0.0.2">>, fwd |-> <<>>],
      [remoteAddr |-> <<"10.0.0.2">>, fwd |-> <<"10.0.0.1">>] }
Keys == { ClientIP(r.remoteAddr, r.fwd) : r \in Requests }
\* More remote addresses: one with an empty host, an IPv6 address in
\* brackets with a port, and the same IPv6 address bare.
KeyRequests ==
    Requests \cup
    { [remoteAddr |-> <<":", "5000">>, fwd |-> <<>>],
      [remoteAddr |-> <<"[", "fe80", ":", ":", "1", "]", ":", "5000">>, fwd |-> <<>>],
      [remoteAddr |-> <<"fe80", ":", ":", "1">>, fwd |-> <<>>] }
KeyKeys == { ClientIP(r.remoteAddr, r.fwd) : r \in KeyRequests }

\* ------------------------------------------------------------------- state
Procs == 1..MaxProcs
\* The holders of rl.mu: a request goroutine, the cleanup goroutine, nobody.
Sweeper == 0
Free == -1
\* rate.Limiter objects on the heap: at most one per map entry and one per
\* request still holding a pointer to a bucket that left the map.
LimIds == 1..(Cardinality(Keys) + MaxProcs)

VARIABLES
    now,        \* the wall clock, in seconds
    ticks,      \* how many times the clock has advanced
    arrivals,   \* how many of the counted requests have arrived
    mu,         \* rl.mu: Free, or the goroutine holding it
    visitors,   \* rl.visitors: key -> [limiter, lastSeen], on the keys present
    limiters,   \* the rate.Limiter objects: id -> [tokens, last]
    req,        \* the request goroutines: proc -> its position and locals
    resp,       \* what each request goroutine's ResponseWriter received
    sweep,      \* the cleanup goroutine: its position and loop state
    burst,      \* observer: per key created this second, its Allow calls
    paced,      \* observer: per key, whether its requests kept the refill pace
    win,        \* observer: the accepted requests of one key in one window
    ref,        \* observer, if on: per key, a bucket that is never removed
    call,       \* the tool invocation under way: its position and locals
    sent        \* the upstream requests this invocation has issued

limVars == <<now, ticks, arrivals, mu, visitors, limiters, req, resp, sweep,
             burst, paced, win, ref>>
toolVars == <<call, sent>>
vars == <<limVars, toolVars>>

NoReq == [remoteAddr |-> <<>>, fwd |-> <<>>]
\* The path of the requests for the message endpoint (main.go:71).
MessagePath == <<"/", "message">>
\* fresh: whether this request's lookup created the entry; at: the time of
\* its lookup, while it holds the bucket (-1 before and after); t: the
\* time.Now() its limiter.Allow() took, until the token check is made with
\* it (-1 before and after); ok: what limiter.Allow() returned, until the
\* request is answered; had, inBurst: the observers' notes of that call
\* (whether the bucket held a token; the second of the burst it was
\* counted in, or -1).
IdleProc == [pc |-> "idle", r |-> NoReq, path |-> <<>>, ip |-> <<>>,
             limiter |-> 0, fresh |-> FALSE, at |-> -1, t |-> -1,
             ok |-> FALSE, had |-> FALSE, inBurst |-> -1]
\* Nothing written yet: no status, no headers, no body, handler not called.
\* hadToken is the observer's note of whether the bucket held a token.
NoResp == [status |-> 0, retryAfter |-> "", contentType |-> "", body |-> "",
           location |-> <<>>,
           nextCalls |-> 0, nextArg |-> NoReq, hadToken |-> FALSE]

\* The body written on rejection (main.go:168).
RateLimitBody == "{\"error\":\"rate limit exceeded\",\"retry_after\":60}"

\* rate.NewLimiter(rl.rate, rl.burst) at time t: a full bucket.
NewLimiter(t) == [tokens |-> Burst * RefillSec, last |-> t]

NoWindow == [open |-> FALSE, key |-> <<>>, start |-> 0, count |-> 0]

\* The limiter newRateLimiter returns, its cleanup goroutine started, and
\* no request yet; the observer of the never-removed buckets on or off.
LimiterStartOn(on, procs) ==
    /\ now = 0
    /\ ticks = 0
    /\ arrivals = 0
    /\ mu = Free
    /\ visitors = << >>
    /\ limiters = << >>
    /\ req = [p \in procs |-> IdleProc]
    /\ resp = [p \in procs |-> NoResp]
    /\ sweep = [pc |-> "sleep", wake |-> SweepSec, todo |-> {},
                started |-> -1, removed |-> {}]
    /\ burst = << >>
    /\ paced = << >>
    /\ win = NoWindow
    /\ ref = [on |-> on, of |-> << >>]
LimiterStart(on) == LimiterStartOn(on, Procs)
LimiterInit == LimiterStart(FALSE)

\* The limiter objects some goroutine or the map still points to.
Reachable(vis, rq) ==
    ({ vis[k].limiter : k \in DOMAIN vis } \cup
     { rq[p].limiter : p \in DOMAIN rq }) \ {0}
\* Garbage collection: an object nothing points to is gone.
Collect(lims, vis, rq) ==
    [l \in (DOMAIN lims) \cap Reachable(vis, rq) |-> lims[l]]
\* The address of a newly allocated object.
FreshId ==
    CHOOSE l \in LimIds : l \notin DOMAIN limiters /\
        \A m \in LimIds : m \notin DOMAIN limiters => l <= m
\* A map without key k.
Without(f, k) == [j \in (DOMAIN f) \ {k} |-> f[j]]

\* The string a text spells: its pieces one after another.
RECURSIVE Str(_)
Str(t) == IF t = <<>> THEN "" ELSE Head(t) \o Str(Tail(t))

\* The segments of a slash-separated path: a segment is the text between
\* two slashes.
RECURSIVE Segments(_, _, _)
Segments(t, cur, acc) ==
    IF t = <<>> THEN Append(acc, cur)
    ELSE IF Head(t) = "/" THEN Segments(Tail(t), <<>>, Append(acc, cur))
    ELSE Segments(Tail(t), Append(cur, Head(t)), acc)
\* path.Clean of a rooted path: empty segments and "." go, ".." takes the
\* segment before it away (at the root it just goes).
RECURSIVE Clean(_, _)
Clean(segs, acc) ==
    IF segs = <<>> THEN acc
    ELSE LET g == Head(segs) IN
         IF g = <<>> \/ g = <<".">> THEN Clean(Tail(segs), acc)
         ELSE IF g = <<"..">>
              THEN Clean(Tail(segs),
                         IF acc = <<>> THEN acc ELSE SubSeq(acc, 1, Len(acc) - 1))
         ELSE Clean(Tail(segs), Append(acc, g))
\* A rooted path spelt from its segments.
RECURSIVE Rooted(_)
Rooted(segs) ==
    IF segs = <<>> THEN <<>> ELSE <<"/">> \o Head(segs) \o Rooted(Tail(segs))
\* cleanPath of net/http: the empty path is "/", the path is made rooted
\* and cleaned by path.Clean, and a trailing slash is kept.
CleanPath(path) ==
    LET segs == Clean(Segments(path, <<>>, <<>>), <<>>)
    IN  IF segs = <<>> THEN <<"/">>
        ELSE IF path[Len(path)] = "/" THEN Rooted(segs) \o <<"/">>
        ELSE Rooted(segs)
\* The patterns registered with the mux (main.go:63-85).
Patterns == {<<"/">>, <<"/", "sse">>, <<"/", "message">>, <<"/", "health">>,
             <<"/", "robots.txt">>, <<"/", "sitemap.xml">>,
             <<"/", "static", "/">>, <<"/", "privacy">>}
\* Where http.ServeMux sends a request for a path: to the cleaned path,
\* and to that path with a slash after it when that is a registered
\* pattern and the path itself is none.  A request for a path that is
\* sent elsewhere is answered with a redirect.
MuxLocation(path) ==
    LET cleaned == CleanPath(path)
    IN  IF cleaned \notin Patterns /\ (cleaned \o <<"/">>) \in Patterns
        THEN cleaned \o <<"/">>
        ELSE cleaned
\* The handler http.ServeMux picks for a path (main.go:62-88), for a
\* method other than CONNECT: a redirect when the path is sent elsewhere;
\* else a pattern without a trailing slash matches its path alone,
\* "/static/" every path under it, and "/" every path no other pattern
\* matches; the handler of "/" serves the landing page for "/" and hands
\* every other path to the transport.
MuxSseLimited(path) ==
    IF path = <<"/", "sse">> \/ path = MessagePath THEN "limited" ELSE "transport"
Mux(path) ==
    CASE MuxLocation(path) # path -> "redirect"
      [] path = <<"/", "sse">> -> "transport"
      [] path = MessagePath -> "limited"
      [] path = <<"/", "health">> -> "health"
      [] path = <<"/", "robots.txt">> -> "robots"
      [] path = <<"/", "sitemap.xml">> -> "sitemap"
      [] path = <<"/", "privacy">> -> "privacy"
      [] Len(path) >= 3 /\ SubSeq(path, 1, 3) = <<"/", "static", "/">> -> "static"
      [] path = <<"/">> -> "landing"
      [] OTHER -> "transport"
\* The paths requests come for: the registered ones, paths under them and
\* beside them, and paths the mux sends elsewhere.
Paths == {<<"/">>, <<"/", "sse">>, MessagePath, <<"/", "health">>,
          <<"/", "robots.txt">>, <<"/", "sitemap.xml">>, <<"/", "privacy">>,
          <<"/", "static", "/", "style.css">>, <<"/", "message", "/">>,
          <<"/", "messages">>, <<"/", "other">>,
          <<"/", "static">>, <<"/", "/", "message">>,
          <<"/", "a", "/", "..", "/", "message">>, <<>>}
\* The methods requests come with.
Methods == {"GET", "HEAD", "POST"}
\* http.Redirect with StatusMovedPermanently, which the mux's redirect
\* handler calls: the Location and the status for every method, for GET
\* and HEAD a Content-Type as well, and for GET a body that names the
\* Location (none of the paths has a character htmlEscape would replace).
Redirect(method, loc) ==
    [NoResp EXCEPT
        !.status = StatusMovedPermanently,
        !.location = loc,
        !.contentType = IF method \in {"GET", "HEAD"}
                        THEN "text/html; charset=utf-8" ELSE "",
        !.body = IF method = "GET"
                 THEN "<a href=\"" \o Str(loc) \o "\">Moved Permanently</a>.\n\n"
                 ELSE ""]
\* http.FileServer over the embedded files (main.go:23-24, 84), asked for
\* a file under /static/, whatever the method: if the file is embedded,
\* status 200 with the content type of its extension and, unless the
\* method is HEAD, its bytes (named here by the file's name in the
\* embedded tree); if not, http.Error with status 404.  Which files are
\* embedded the source does not show.
FileServer(method, path, found) ==
    IF found
    THEN [NoResp EXCEPT !.status = StatusOK,
                        !.contentType = "text/css; charset=utf-8",
                        !.body = IF method = "HEAD" THEN ""
                                 ELSE Str(SubSeq(path, 2, Len(path)))]
    ELSE [NoResp EXCEPT !.status = StatusNotFound,
                        !.contentType = "text/plain; charset=utf-8",
                        !.body = "404 page not found\n"]
\* What a handler outside the limiter leaves in the ResponseWriter: the
\* transport writes what it likes, the redirect and the file server as
\* above, the others their content type and their text.
Unthrottled(handler, r, method, path, found) ==
    CASE handler = "transport" ->
           [NoResp EXCEPT !.nextCalls = 1, !.nextArg = r]
      [] handler = "redirect" -> Redirect(method, MuxLocation(path))
      [] handler = "static" -> FileServer(method, path, found)
      [] handler = "health" ->
           [NoResp EXCEPT !.contentType = "application/json",
                          !.body = "{\"status\":\"ok\",\"server\":\"livescore-mcp\",\"version\":\"1.0.0\"}"]
      [] handler = "robots" ->
           [NoResp EXCEPT !.contentType = "text/plain", !.body = "robotsTxt"]
      [] handler = "sitemap" ->
           [NoResp EXCEPT !.contentType = "application/xml", !.body = "sitemapXML"]
      [] handler = "privacy" ->
           [NoResp EXCEPT !.contentType = "text/html; charset=utf-8",
                          !.body = "privacyHTML"]
      [] OTHER ->
           [NoResp EXCEPT !.contentType = "text/html; charset=utf-8",
                          !.body = "landingHTML"]
\* net/http serves each request on a goroutine of its own; which of the
\* model's goroutines that is makes no difference to the code, so a request
\* runs on the first one that is free.
FirstFree(p) ==
    /\ req[p].pc \in {"idle", "done", "served"}
    /\ \A q \in DOMAIN req : q < p => req[q].pc \notin {"idle", "done", "served"}
\* A request that entered the middleware: the key is derived (main.go:154-160).
Entered(r, path) ==
    [pc |-> "lock", r |-> r, path |-> path,
     ip |-> ClientIP(r.remoteAddr, r.fwd), limiter |-> 0, fresh |-> FALSE,
     at |-> -1, t |-> -1, ok |-> FALSE, had |-> FALSE, inBurst |-> -1]
\* The mux dispatches a request for any path, with any method: to the
\* middleware if the path's handler is wrapped in it, to the handler itself
\* otherwise, which answers at once.  found: whether the file the path
\* names is among the embedded ones.
Dispatch(p, r, method, path, found, maxCounted) ==
    /\ FirstFree(p)
    /\ arrivals < maxCounted
    /\ arrivals' = arrivals + 1
    /\ IF Mux(path) = "limited"
       THEN /\ req' = [req EXCEPT ![p] = Entered(r, path)]
            /\ resp' = [resp EXCEPT ![p] = NoResp]
       ELSE /\ req' = [req EXCEPT ![p] =
                          [IdleProc EXCEPT !.pc = "served", !.r = r,
                                           !.path = path]]
            /\ resp' = [resp EXCEPT ![p] = Unthrottled(Mux(path), r, method, path, found)]
    /\ UNCHANGED toolVars
    /\ UNCHANGED ref
    /\ UNCHANGED <<now, ticks, mu, visitors, limiters, sweep, burst, paced, win>>

\* ------------------------------------------------------- request goroutine
\* A request enters the middleware (main.go:153-160): the key is derived.
\* counted says whether the request counts against the bound maxCounted.
Arrive(p, r, counted, maxCounted) ==
    /\ FirstFree(p)
    /\ counted => arrivals < maxCounted
    /\ arrivals' = IF counted THEN arrivals + 1 ELSE arrivals
    /\ req' = [req EXCEPT ![p] = Entered(r, MessagePath)]
    /\ resp' = [resp EXCEPT ![p] = NoResp]
    /\ UNCHANGED toolVars
    /\ UNCHANGED ref
    /\ UNCHANGED <<now, ticks, mu, visitors, limiters, sweep, burst, paced, win>>

\* getLimiter: rl.mu.Lock() (main.go:126)
GetLimiterNoLock(p) ==
    /\ req[p].pc = "lock"
    /\ mu' = p
    /\ req' = [req EXCEPT ![p].pc = "locked"]
    /\ UNCHANGED toolVars
    /\ UNCHANGED ref
    /\ UNCHANGED <<now, ticks, arrivals, visitors, limiters, resp, sweep,
                   burst, paced, win>>
GetLimiterLock(p) ==
    /\ req[p].pc = "lock"
    /\ mu = Free
    /\ mu' = p
    /\ req' = [req EXCEPT ![p].pc = "locked"]
    /\ UNCHANGED toolVars
    /\ UNCHANGED ref
    /\ UNCHANGED <<now, ticks, arrivals, visitors, limiters, resp, sweep,
                   burst, paced, win>>

\* The time of a request's lookup, kept with the request in observed runs.
LookupAt(rf, t) == IF rf.on THEN t ELSE -1

\* Observer: key k was looked up at time t.
LookupSeen(rf, k, t) ==
    IF ~rf.on THEN rf
    ELSE IF k \in DOMAIN rf.of
    THEN [rf EXCEPT !.of[k].seen = t]
    ELSE [rf EXCEPT !.of = (k :> [tokens |-> Burst * RefillSec, last |-> t,
                                  refOk |-> TRUE, ok |-> TRUE, at |-> -1,
                                  seen |-> t]) @@ rf.of]

\* getLimiter: the body under the lock and the deferred unlock (main.go:127-136)
GetLimiterBodyBumpAll(p) ==
    /\ req[p].pc = "locked"
    /\ mu = p
    /\ LET ip == req[p].ip IN
       IF ip \notin DOMAIN visitors
       THEN LET id == FreshId IN
            /\ limiters' = (id :> NewLimiter(now)) @@ limiters
            /\ visitors' = [k \in DOMAIN visitors \cup {ip} |->
                               IF k = ip THEN [limiter |-> id, lastSeen |-> now]
                               ELSE [visitors[k] EXCEPT !.lastSeen = now]]
            /\ req' = [req EXCEPT ![p].pc = "allow", ![p].limiter = id,
                                  ![p].fresh = TRUE, ![p].at = LookupAt(ref, now)]
            /\ burst' = (ip :> [calls |-> 0, accepts |-> 0, rejects |-> 0])
                            @@ burst
       ELSE /\ visitors' = [k \in DOMAIN visitors |->
                               [visitors[k] EXCEPT !.lastSeen = now]]
            /\ req' = [req EXCEPT ![p].pc = "allow",
                                  ![p].limiter = visitors[ip].limiter,
                                  ![p].at = LookupAt(ref, now)]
            /\ UNCHANGED <<limiters, burst>>
    /\ mu' = Free
    /\ UNCHANGED toolVars
    /\ ref' = LookupSeen(ref, req[p].ip, now)
    /\ UNCHANGED <<now, ticks, arrivals, resp, sweep, paced, win>>
GetLimiterBodyNoBump(p) ==
    /\ req[p].pc = "locked"
    /\ mu = p
    /\ LET ip == req[p].ip IN
       IF ip \notin DOMAIN visitors
       THEN LET id == FreshId IN
            /\ limiters' = (id :> NewLimiter(now)) @@ limiters
            /\ visitors' = (ip :> [limiter |-> id, lastSeen |-> now]) @@ visitors
            /\ req' = [req EXCEPT ![p].pc = "allow", ![p].limiter = id,
                                  ![p].fresh = TRUE, ![p].at = LookupAt(ref, now)]
            /\ burst' = (ip :> [calls |-> 0, accepts |-> 0, rejects |-> 0])
                            @@ burst
       ELSE /\ req' = [req EXCEPT ![p].pc = "allow",
                                  ![p].limiter = visitors[ip].limiter,
                                  ![p].at = LookupAt(ref, now)]
            /\ UNCHANGED <<visitors, limiters, burst>>
    /\ mu' = Free
    /\ UNCHANGED toolVars
    /\ ref' = LookupSeen(ref, req[p].ip, now)
    /\ UNCHANGED <<now, ticks, arrivals, resp, sweep, paced, win>>
GetLimiterBody(p) ==
    /\ req[p].pc = "locked"
    /\ mu = p
    /\ LET ip == req[p].ip IN
       IF ip \notin DOMAIN visitors
       THEN LET id == FreshId IN
            /\ limiters' = (id :> NewLimiter(now)) @@ limiters
            /\ visitors' = (ip :> [limiter |-> id, lastSeen |-> now]) @@ visitors
            /\ req' = [req EXCEPT ![p].pc = "allow", ![p].limiter = id,
                                  ![p].fresh = TRUE, ![p].at = LookupAt(ref, now)]
            /\ burst' = (ip :> [calls |-> 0, accepts |-> 0, rejects |-> 0])
                            @@ burst
       ELSE /\ visitors' = [visitors EXCEPT ![ip].lastSeen = now]
            /\ req' = [req EXCEPT ![p].pc = "allow",
                                  ![p].limiter = visitors[ip].limiter,
                                  ![p].at = LookupAt(ref, now)]
            /\ UNCHANGED <<limiters, burst>>
    /\ mu' = Free
    /\ UNCHANGED toolVars
    /\ ref' = LookupSeen(ref, req[p].ip, now)
    /\ UNCHANGED <<now, ticks, arrivals, resp, sweep, paced, win>>

\* rate.Limiter.advance: the tokens the bucket holds at time t.
AdvancedHalf(lim, t) ==
    LET last == IF t < lim.last THEN t ELSE lim.last
    IN  Min(Burst * RefillSec, lim.tokens + (t - last) \div 2)
AdvancedPerMinute(lim, t) ==
    LET last == IF t < lim.last THEN t ELSE lim.last
    IN  Min(Burst * RefillSec, lim.tokens + (t - last) \div WindowSec)
Advanced(lim, t) ==
    LET last == IF t < lim.last THEN t ELSE lim.last
    IN  Min(Burst * RefillSec, lim.tokens + (t - last))
\* rate.Limiter.Allow at time t: whether a token is there to take.
AllowOkStrict(lim, t) == Advanced(lim, t) > RefillSec
AllowOk(lim, t) == Advanced(lim, t) >= RefillSec
\* rate.Limiter.Allow at time t: the bucket afterwards.
AfterAllow(lim, t) ==
    IF AllowOk(lim, t)
    THEN [tokens |-> Advanced(lim, t) - RefillSec, last |-> t]
    ELSE lim

\* The response of a rejected request (main.go:165-168).
RejectedNoReturn(r) ==
    [status |-> StatusTooManyRequests, retryAfter |-> "60",
     contentType |-> "application/json", body |-> RateLimitBody,
     nextCalls |-> 1, nextArg |-> r, hadToken |-> FALSE]
Rejected(r) ==
    [status |-> StatusTooManyRequests, retryAfter |-> "60",
     contentType |-> "application/json", body |-> RateLimitBody,
     nextCalls |-> 0, nextArg |-> NoReq, hadToken |-> FALSE]
\* An accepted request: next(w, r) is called (main.go:171); what the wrapped
\* handler writes is its own affair.
Accepted(r) ==
    [status |-> 0, retryAfter |-> "", contentType |-> "", body |-> "",
     nextCalls |-> 1, nextArg |-> r, hadToken |-> FALSE]

\* Observer: whether a bucket with these tokens, last touched at lim.last,
\* holds at least one whole token at time t, refilled at one token per
\* RefillSec seconds up to Burst tokens.
HasToken(lim, t) ==
    \/ lim.tokens >= RefillSec
    \/ lim.tokens + (t - lim.last) >= RefillSec
\* Observer of the second a key's bucket is created: the Allow calls made
\* on that bucket, how many took a token, and how many of the requests
\* were answered with the rejection.
BurstSeen(b, ok) ==
    [b EXCEPT !.calls = @ + 1, !.accepts = @ + (IF ok THEN 1 ELSE 0)]
RejectSeen(b, rs) ==
    [b EXCEPT !.rejects = @ + (IF rs.status = StatusTooManyRequests
                                  /\ rs.retryAfter # ""
                               THEN 1 ELSE 0)]
\* Observer of a key's pace: the time its latest request read in Allow,
\* whether each of its requests so far read a time at least a refill
\* interval after the one before it, how many there were (1, or 2 for
\* more) and whether any was rejected.  A key that broke the pace is no
\* longer observed.
OffPace == [last |-> -1, ok |-> FALSE, n |-> 0, rejected |-> FALSE]
PaceSeen(pc, k, t) ==
    IF k \notin DOMAIN pc
    THEN (k :> [last |-> t, ok |-> TRUE, n |-> 1, rejected |-> FALSE]) @@ pc
    ELSE IF pc[k].ok /\ t - pc[k].last >= RefillSec
    THEN [pc EXCEPT ![k] = [last |-> t, ok |-> TRUE, n |-> 2,
                            rejected |-> @.rejected]]
    ELSE [pc EXCEPT ![k] = OffPace]
\* The same observer at the token check of a request of key k.
PaceChecked(pc, k, ok) ==
    IF k \in DOMAIN pc /\ pc[k].ok
    THEN [pc EXCEPT ![k].rejected = @ \/ ~ok]
    ELSE pc
\* Observer of the window: the accepted requests of its key whose token
\* check was made for a time from its start to WindowSec seconds later.
WindowSeen(w, k, t, ok) ==
    IF w.open /\ w.key = k /\ ok /\ w.start <= t /\ t <= w.start + WindowSec
    THEN [w EXCEPT !.count = @ + 1]
    ELSE w

\* Observer of a limiter without the sweep, per key: the bucket the key got
\* at its first lookup and has kept since (tokens, last), the time of the
\* key's latest lookup (seen), the time its latest token check was made
\* (at), the outcome the kept bucket gave then (refOk) and the outcome the
\* request got (ok).  The kept bucket is charged as the request's bucket
\* is: with the time t the request's Allow took.
RefSeen(rf, k, t, at, ok) ==
    LET lim == [tokens |-> rf.of[k].tokens, last |-> rf.of[k].last]
        after == AfterAllow(lim, t)
    IN  IF ~rf.on THEN rf
        ELSE [rf EXCEPT !.of[k] = [tokens |-> after.tokens, last |-> after.last,
                                   refOk |-> AllowOk(lim, t), ok |-> ok,
                                   at |-> at, seen |-> rf.of[k].seen]]

\* limiter.Allow() is AllowN(time.Now(), 1) (main.go:163): the time is read
\* first, outside every lock.
AllowTime(p) ==
    /\ req[p].pc = "allow"
    /\ req' = [req EXCEPT ![p].pc = "reserve", ![p].t = now]
    /\ paced' = PaceSeen(paced, req[p].ip, now)
    /\ UNCHANGED toolVars
    /\ UNCHANGED ref
    /\ UNCHANGED <<now, ticks, arrivals, mu, visitors, limiters, resp, sweep,
                   burst, win>>

\* The rest of limiter.Allow() (main.go:163): under the limiter's own mutex
\* the bucket is advanced to the time read before and charged; the mutex is
\* released and Allow returns whether it took a token.  Nothing is written
\* yet and next is not called yet.
AllowReserve(p) ==
    /\ req[p].pc = "reserve"
    /\ LET id == req[p].limiter
           ip == req[p].ip
           t == req[p].t
           lim == limiters[id]
           ok == AllowOk(lim, t)
           seen == /\ ip \in DOMAIN burst /\ ip \in DOMAIN visitors
                   /\ visitors[ip].limiter = id
                   /\ burst[ip].calls < Burst + MaxExcess
       IN  /\ req' = [req EXCEPT ![p].pc = "respond", ![p].limiter = 0,
                                 ![p].at = -1, ![p].t = -1, ![p].ok = ok,
                                 ![p].had = HasToken(lim, t),
                                 ![p].inBurst = IF seen THEN now ELSE -1]
           /\ limiters' = Collect([limiters EXCEPT ![id] = AfterAllow(lim, t)],
                                  visitors, req')
           /\ burst' = IF seen THEN [burst EXCEPT ![ip] = BurstSeen(@, ok)]
                       ELSE burst
           /\ paced' = PaceChecked(paced, ip, ok)
           /\ win' = WindowSeen(win, ip, t, ok)
           /\ ref' = RefSeen(ref, ip, t, now, ok)
    /\ UNCHANGED toolVars
    /\ UNCHANGED <<now, ticks, arrivals, mu, visitors, resp, sweep>>

\* What follows limiter.Allow() (main.go:164-171): the request is answered
\* with the rejection if Allow returned false, and handed to next if it
\* returned true.
Respond(p) ==
    /\ req[p].pc = "respond"
    /\ LET ip == req[p].ip
           rs == [(IF req[p].ok THEN Accepted(req[p].r) ELSE Rejected(req[p].r))
                     EXCEPT !.hadToken = req[p].had]
       IN  /\ resp' = [resp EXCEPT ![p] = rs]
           /\ req' = [req EXCEPT ![p].pc = "done", ![p].ok = FALSE,
                                 ![p].had = FALSE, ![p].inBurst = -1]
           /\ burst' = IF req[p].inBurst = now /\ ip \in DOMAIN burst
                       THEN [burst EXCEPT ![ip] = RejectSeen(@, rs)]
                       ELSE burst
    /\ UNCHANGED toolVars
    /\ UNCHANGED ref
    /\ UNCHANGED <<now, ticks, arrivals, mu, visitors, limiters, sweep,
                   paced, win>>

\* ------------------------------------------------------- cleanup goroutine
\* cleanup: the sleep is over and rl.mu.Lock() succeeds (main.go:141-142);
\* the range loop starts over the keys then in the map.
SweepLock ==
    /\ sweep.pc = "sleep"
    /\ now >= sweep.wake
    /\ mu = Free
    /\ mu' = Sweeper
    /\ sweep' = [sweep EXCEPT !.pc = "scan", !.todo = DOMAIN visitors,
                              !.started = now]
    /\ UNCHANGED toolVars
    /\ UNCHANGED ref
    /\ UNCHANGED <<now, ticks, arrivals, visitors, limiters, req, resp,
                   burst, paced, win>>

\* Whether the sweep removes an entry it examines at time t (main.go:144).
ExpiredBackwards(entry, t) == entry.lastSeen - t > IdleSec
ExpiredAtThreshold(entry, t) == t - entry.lastSeen >= IdleSec
Expired(entry, t) == t - entry.lastSeen > IdleSec

\* cleanup: one iteration of the range loop (main.go:143-147)
SweepExamine(k) ==
    /\ sweep.pc = "scan"
    /\ k \in sweep.todo
    /\ LET gone == Expired(visitors[k], now) IN
       /\ sweep' = [sweep EXCEPT !.todo = @ \ {k},
                       !.removed = IF gone THEN @ \cup {k} ELSE @]
       /\ visitors' = IF gone THEN Without(visitors, k) ELSE visitors
    /\ limiters' = Collect(limiters, visitors', req)
    /\ UNCHANGED toolVars
    /\ UNCHANGED ref
    /\ UNCHANGED <<now, ticks, arrivals, mu, req, resp, burst, paced, win>>

\* cleanup: rl.mu.Unlock() and back to sleep (main.go:148, 141)
SweepNoUnlock ==
    /\ sweep.pc = "scan"
    /\ sweep.todo = {}
    /\ mu' = mu
    /\ sweep' = [sweep EXCEPT !.pc = "sleep", !.wake = now + SweepSec]
    /\ UNCHANGED toolVars
    /\ UNCHANGED ref
    /\ UNCHANGED <<now, ticks, arrivals, visitors, limiters, req, resp,
                   burst, paced, win>>
SweepUnlock ==
    /\ sweep.pc = "scan"
    /\ sweep.todo = {}
    /\ mu' = Free
    /\ sweep' = [sweep EXCEPT !.pc = "sleep", !.wake = now + SweepSec]
    /\ UNCHANGED toolVars
    /\ UNCHANGED ref
    /\ UNCHANGED <<now, ticks, arrivals, visitors, limiters, req, resp,
                   burst, paced, win>>

\* ------------------------------------------------------------------ clock
\* The clock moves on by d seconds; the second in which buckets were
\* created is over.
Tick(d, maxTicks) ==
    /\ ticks < maxTicks
    /\ now' = now + d
    /\ ticks' = ticks + 1
    /\ burst' = << >>
    /\ UNCHANGED toolVars
    /\ UNCHANGED ref
    /\ UNCHANGED <<arrivals, mu, visitors, limiters, req, resp, sweep, paced, win>>

\* The observer starts to count the accepted requests of key k.
OpenWindow(k) ==
    /\ ~win.open
    /\ win' = [open |-> TRUE, key |-> k, start |-> now, count |-> 0]
    /\ UNCHANGED toolVars
    /\ UNCHANGED ref
    /\ UNCHANGED <<now, ticks, arrivals, mu, visitors, limiters, req, resp,
                   sweep, burst, paced>>

(***************************************************************************)
(* Part II models the tool handlers of registerTools: how a handler reads  *)
(* its arguments (toMap, getStr, getInt), the URL it builds (buildURL, or  *)
(* inline for search and get_team_image), the upstream request it issues, *)
(* the requests the HTTP client adds to it when the upstream redirects,    *)
(* and the result the handler returns for each upstream outcome            *)
(* (apiRequest, and the HEAD check of get_team_image).                     *)
(*                                                                         *)
(* A text is a sequence of pieces, each a string; fmt.Sprintf puts pieces  *)
(* one after another.  Characters the code looks at ("/", "..", ":") are   *)
(* pieces of their own.  Str gives the string a text spells.               *)
(***************************************************************************)
\* Whether text t has the pieces of sub, in order and adjacent, somewhere.
Contains(t, sub) ==
    \E i \in 1..(Len(t) - Len(sub) + 1) : SubSeq(t, i, i + Len(sub) - 1) = sub

\* baseURL (main.go:27), as url.Parse takes it apart
BaseURL == [scheme |-> "https", host |-> "uitslagen.live", path |-> <<<<"footapi">>>>]
\* defaultLang (main.go:28)
DefaultLang == <<"en">>
\* defaultVersion (main.go:29)
DefaultVersion == 2800

\* ------------------------------------------------------------- arguments
\* An argument value: a string (a text), a number (a float64, given in
\* tenths), or something else (a bool).
StrV(t) == [t |-> "string", s |-> t]
NumV(tenths) == [t |-> "number", tenths |-> tenths]
BoolV(b) == [t |-> "bool", b |-> b]
\* req.Params.Arguments: a map from names to values, or anything else.
MapArgs(m) == [isMap |-> TRUE, m |-> m]
NotAMap == [isMap |-> FALSE, m |-> << >>]

\* toMap (main.go:964-969)
ToMap(args) == IF args.isMap THEN args.m ELSE << >>

\* getStr (main.go:971-977)
GetStrOrNull(args, key, fallback) ==
    LET m == ToMap(args) IN
    IF key \in DOMAIN m /\ m[key].t = "string" /\ m[key].s # <<>>
    THEN m[key].s ELSE <<"null">>
GetStr(args, key, fallback) ==
    LET m == ToMap(args) IN
    IF key \in DOMAIN m /\ m[key].t = "string" /\ m[key].s # <<>>
    THEN m[key].s ELSE fallback

\* int(v) of a float64: the fraction is cut off, towards zero
Truncate(tenths) ==
    IF tenths >= 0 THEN tenths \div 10 ELSE -((-tenths) \div 10)
\* getInt (main.go:979-985)
GetIntDefault(args, key, fallback) == fallback
GetIntNonZero(args, key, fallback) ==
    LET m == ToMap(args) IN
    IF key \in DOMAIN m /\ m[key].t = "number" /\ m[key].tenths # 0
    THEN Truncate(m[key].tenths)
    ELSE fallback
GetInt(args, key, fallback) ==
    LET m == ToMap(args) IN
    IF key \in DOMAIN m /\ m[key].t = "number" THEN Truncate(m[key].tenths)
    ELSE fallback

\* ------------------------------------------------------------------ URLs
\* URL.EscapedPath of an unescaped path: of the characters of the model,
\* "?", "#" and the blank are escaped; there is no "%" among them.
EscapedPathPiece(c) ==
    CASE c = "?" -> "%3F"
      [] c = "#" -> "%23"
      [] c = " " -> "%20"
      [] OTHER -> c
\* URL.EscapedPath of a path that is escaped already: every "%" is escaped
\* once more.
EscapedAgainPiece(c) ==
    CASE c = "%3F" -> "%253F"
      [] c = "%23" -> "%2523"
      [] c = "%20" -> "%2520"
      [] OTHER -> c
\* url.JoinPath(u.Path, elems...): the base's segments and the elements',
\* joined and cleaned by path.Join, and the string of the result, which is
\* its escaped path.
JoinPath(base, elems) ==
    LET kept == Clean(base \o elems, <<>>)
    IN  [i \in 1..Len(kept) |->
            [j \in 1..Len(kept[i]) |-> EscapedPathPiece(kept[i][j])]]
\* The elements of one path argument.
PathElems(t) == Segments(t, <<>>, <<>>)

\* url.Values.Encode escapes a value: of the characters of the model, "/"
\* and ":" are escaped.
EscapePiece(c) ==
    CASE c = "/" -> "%2F"
      [] c = ":" -> "%3A"
      [] c = "?" -> "%3F"
      [] c = "#" -> "%23"
      [] c = " " -> "+"
      [] OTHER -> c
QueryEscape(t) == [i \in 1..Len(t) |-> EscapePiece(t[i])]
\* url.Values.Encode writes the parameters sorted by name.
QueryOrder == <<"country", "date", "h2h", "lang", "q", "tzoffset", "version">>
RECURSIVE EncodeFrom(_, _, _)
EncodeFrom(q, i, first) ==
    IF i > Len(QueryOrder) THEN <<>>
    ELSE LET k == QueryOrder[i] IN
         IF k \in DOMAIN q
         THEN (IF first THEN <<>> ELSE <<"&">>) \o <<k, "=">> \o QueryEscape(q[k])
                  \o EncodeFrom(q, i + 1, FALSE)
         ELSE EncodeFrom(q, i + 1, first)
Encode(q) == EncodeFrom(q, 1, TRUE)
\* URL.String: buildURL assigns the string url.JoinPath returns to u.Path
\* (main.go:989), so that u.String() escapes it a second time.
RECURSIVE PathText(_)
PathText(segs) ==
    IF segs = <<>> THEN <<>>
    ELSE <<"/">> \o [j \in 1..Len(Head(segs)) |-> EscapedAgainPiece(Head(segs)[j])]
             \o PathText(Tail(segs))
URLString(u) ==
    <<u.scheme, "://", u.host>>
        \o (IF u.path = <<>> THEN <<"/">> ELSE PathText(u.path))
        \o (IF DOMAIN u.query = {} THEN <<>> ELSE <<"?">> \o Encode(u.query))

\* strconv.Itoa
Itoa(n) == <<ToString(n)>>

\* The parameters buildURL always sets (main.go:991-993).
LangAndVersion(args) ==
    [lang |-> GetStr(args, "language", DefaultLang),
     version |-> Itoa(GetInt(args, "version", DefaultVersion))]
\* buildURL (main.go:987-1001); extra is the map the extra pairs set
BuildURL(path, args, extra) ==
    [scheme |-> BaseURL.scheme, host |-> BaseURL.host,
     path |-> JoinPath(BaseURL.path, PathElems(path)),
     query |-> extra @@ LangAndVersion(args)]

\* --------------------------------------------------------- response bodies
\* A body is a sequence of lexical tokens: punctuation, string literals,
\* number literals, the literals true, false and null, white space, and
\* anything else.  A number literal is the integer n, or 2^53 + n when big
\* (integers that need more than the 53 bits a float64 has for them), or a
\* number beyond the range of float64 when huge.
Punct(c) == [k |-> "punct", s |-> c]
StrTok(s) == [k |-> "string", s |-> s]
NumTok(big, n) == [k |-> "number", big |-> big, n |-> n, huge |-> FALSE]
HugeTok == [k |-> "number", big |-> FALSE, n |-> 0, huge |-> TRUE]
LitTok(s) == [k |-> "literal", s |-> s]
Space(s) == [k |-> "space", s |-> s]
Junk(s) == [k |-> "junk", s |-> s]

\* The characters a token stands for; 2^53 is 9007199254740992.
NumText(t) ==
    IF t.huge THEN "1e400"
    ELSE IF t.big THEN "90071992547" \o ToString(40992 + t.n)
    ELSE ToString(t.n)
TokText(t) ==
    CASE t.k = "string" -> "\"" \o t.s \o "\""
      [] t.k = "number" -> NumText(t)
      [] OTHER -> t.s
\* string(body)
Spell(toks) == [i \in 1..Len(toks) |-> TokText(toks[i])]

\* JSON syntax: the value a token sequence denotes.
Fail == [ok |-> FALSE, v |-> [t |-> "none"], next |-> 0]
Got(v, i) == [ok |-> TRUE, v |-> v, next |-> i]
RECURSIVE SkipSpace(_, _)
SkipSpace(toks, i) ==
    IF i <= Len(toks) /\ toks[i].k = "space" THEN SkipSpace(toks, i + 1) ELSE i
IsPunct(toks, i, c) == i <= Len(toks) /\ toks[i] = Punct(c)

RECURSIVE ParseValue(_, _), ParseMembers(_, _, _), ParseElements(_, _, _)
ParseValue(toks, i0) ==
    LET i == SkipSpace(toks, i0) IN
    IF i > Len(toks) THEN Fail
    ELSE LET t == toks[i] IN
      CASE t.k = "string" -> Got([t |-> "string", s |-> t.s], i + 1)
        [] t.k = "number" ->
             Got([t |-> "number", big |-> t.big, n |-> t.n, huge |-> t.huge], i + 1)
        [] t.k = "literal" -> Got([t |-> "literal", s |-> t.s], i + 1)
        [] t = Punct("{") ->
             LET j == SkipSpace(toks, i + 1) IN
             IF IsPunct(toks, j, "}") THEN Got([t |-> "object", m |-> << >>], j + 1)
             ELSE ParseMembers(toks, j, << >>)
        [] t = Punct("[") ->
             LET j == SkipSpace(toks, i + 1) IN
             IF IsPunct(toks, j, "]") THEN Got([t |-> "array", a |-> << >>], j + 1)
             ELSE ParseElements(toks, j, << >>)
        [] OTHER -> Fail
\* The members of an object; a later member replaces an earlier one of the
\* same name.
ParseMembers(toks, i0, acc) ==
    LET i == SkipSpace(toks, i0) IN
    IF ~(i <= Len(toks) /\ toks[i].k = "string") THEN Fail
    ELSE LET key == toks[i].s
             c == SkipSpace(toks, i + 1)
         IN  IF ~IsPunct(toks, c, ":") THEN Fail
             ELSE LET r == ParseValue(toks, c + 1) IN
                  IF ~r.ok THEN Fail
                  ELSE LET m == (key :> r.v) @@ acc
                           e == SkipSpace(toks, r.next)
                       IN  IF IsPunct(toks, e, ",") THEN ParseMembers(toks, e + 1, m)
                           ELSE IF IsPunct(toks, e, "}")
                                THEN Got([t |-> "object", m |-> m], e + 1)
                           ELSE Fail
ParseElements(toks, i0, acc) ==
    LET r == ParseValue(toks, i0) IN
    IF ~r.ok THEN Fail
    ELSE LET a == Append(acc, r.v)
             e == SkipSpace(toks, r.next)
         IN  IF IsPunct(toks, e, ",") THEN ParseElements(toks, e + 1, a)
             ELSE IF IsPunct(toks, e, "]") THEN Got([t |-> "array", a |-> a], e + 1)
             ELSE Fail
\* The value of a whole text, if the text is one JSON value.
ParseJSON(toks) ==
    LET r == ParseValue(toks, 1) IN
    IF r.ok /\ SkipSpace(toks, r.next) > Len(toks) THEN r ELSE Fail

\* json.Unmarshal into interface{}: every number becomes a float64.  An
\* integer 2^53 + n lies where float64 values are 2 apart: an odd n is
\* rounded to the neighbour whose half is even.
Float64(num) ==
    IF num.big /\ num.n % 2 = 1
    THEN [num EXCEPT !.n = IF ((num.n - 1) \div 2) % 2 = 0 THEN num.n - 1
                                                           ELSE num.n + 1]
    ELSE num
\* Whether a value holds a number that no float64 can hold.
RECURSIVE OutOfRange(_)
OutOfRange(v) ==
    CASE v.t = "number" -> v.huge
      [] v.t = "array" -> \E i \in 1..Len(v.a) : OutOfRange(v.a[i])
      [] v.t = "object" -> \E k \in DOMAIN v.m : OutOfRange(v.m[k])
      [] OTHER -> FALSE
RECURSIVE Decoded(_)
Decoded(v) ==
    CASE v.t = "number" -> Float64(v)
      [] v.t = "array" -> [v EXCEPT !.a = [i \in 1..Len(v.a) |-> Decoded(v.a[i])]]
      [] v.t = "object" -> [v EXCEPT !.m = [k \in DOMAIN v.m |-> Decoded(v.m[k])]]
      [] OTHER -> v
\* json.Unmarshal(body, &data) (main.go:1026-1027): a syntax error, or a
\* number out of range, is an error.
Unmarshal(toks) ==
    LET r == ParseJSON(toks) IN
    IF r.ok /\ ~OutOfRange(r.v) THEN [ok |-> TRUE, v |-> Decoded(r.v)]
    ELSE [ok |-> FALSE, v |-> [t |-> "none"]]

\* json.MarshalIndent(data, "", "  ") (main.go:1028): members sorted by
\* name, one member or element per line, two spaces per level.
KeyOrder == <<"a", "b", "id">>
RECURSIVE Indent(_)
Indent(d) == IF d = 0 THEN "" ELSE "  " \o Indent(d - 1)
NewLine(d) == Space("\n" \o Indent(d))
RECURSIVE Marshal(_, _), MarshalMembers(_, _, _, _), MarshalElements(_, _, _)
Marshal(v, d) ==
    CASE v.t = "string" -> <<StrTok(v.s)>>
      [] v.t = "number" -> <<NumTok(v.big, v.n)>>
      [] v.t = "literal" -> <<LitTok(v.s)>>
      [] v.t = "array" ->
           IF v.a = <<>> THEN <<Punct("["), Punct("]")>>
           ELSE <<Punct("[")>> \o MarshalElements(v.a, 1, d + 1)
                    \o <<NewLine(d), Punct("]")>>
      [] v.t = "object" ->
           IF DOMAIN v.m = {} THEN <<Punct("{"), Punct("}")>>
           ELSE <<Punct("{")>> \o MarshalMembers(v.m, 1, d + 1, TRUE)
                    \o <<NewLine(d), Punct("}")>>
MarshalElements(a, i, d) ==
    IF i > Len(a) THEN <<>>
    ELSE (IF i = 1 THEN <<>> ELSE <<Punct(",")>>) \o <<NewLine(d)>>
             \o Marshal(a[i], d) \o MarshalElements(a, i + 1, d)
MarshalMembers(m, i, d, first) ==
    IF i > Len(KeyOrder) THEN <<>>
    ELSE LET k == KeyOrder[i] IN
         IF k \in DOMAIN m
         THEN (IF first THEN <<>> ELSE <<Punct(",")>>)
                  \o <<NewLine(d), StrTok(k), Punct(":"), Space(" ")>>
                  \o Marshal(m[k], d) \o MarshalMembers(m, i + 1, d, FALSE)
         ELSE MarshalMembers(m, i + 1, d, first)
MarshalIndent(v) == Marshal(v, 0)

\* ------------------------------------------------------------ tool results
\* A nil pointer or a nil error.
Nil == [nil |-> TRUE]
\* mcp.NewToolResultText(text): one text content, IsError unset
NewToolResultText(text) ==
    [nil |-> FALSE, content |-> <<[type |-> "text", text |-> text]>>,
     isError |-> FALSE]
\* mcp.NewToolResultError(text): one text content, IsError set
NewToolResultError(text) ==
    [nil |-> FALSE, content |-> <<[type |-> "text", text |-> text]>>,
     isError |-> TRUE]
\* What a handler returns: (*mcp.CallToolResult, error).
Return(result, err) == [result |-> result, err |-> err]
GoError(msg) == [nil |-> FALSE, msg |-> msg]

\* ------------------------------------------------------ upstream requests
\* The client timeouts (main.go:1011, 1209), in seconds.
ApiTimeoutSec == 30
ImageTimeoutSec == 15
UserAgent == "LiveScore-MCP/1.0"
NoRequest == [method |-> "", url |-> <<>>, headers |-> << >>, timeout |-> 0]
\* The request apiRequest makes (main.go:1004-1011).
ApiGet(apiURL) ==
    [method |-> "GET", url |-> apiURL,
     headers |-> [Accept |-> "application/json"] @@ ("User-Agent" :> UserAgent),
     timeout |-> ApiTimeoutSec]
\* The request get_team_image makes (main.go:1203-1209).
ImageHead(imageURL) ==
    [method |-> "HEAD", url |-> imageURL,
     headers |-> ("User-Agent" :> UserAgent),
     timeout |-> ImageTimeoutSec]

\* What one request of the upstream call comes to: no response at all (a
\* transport failure), a response whose body cannot be read to its end, or
\* a response with a status and a body; a response may carry a Location
\* header (an absolute URL).
Statuses == {200, 201, 204, 299, 301, 404, 500}
\* The statuses net/http's client follows (redirectBehavior).
RedirectStatuses == {301, 302, 303, 307, 308}
\* The check the client makes before each redirect it follows, there being
\* no CheckRedirect (main.go:1011, 1209): no more than ten requests.
RedirectLimit == 10
RedirectCause == "stopped after 10 redirects"
\* Where the upstream redirects to.
Moved == <<"https", "://", "example.org", "/", "moved">>
MovedPlain == <<"http", "://", "example.org", "/", "moved">>
Locations == {Moved, MovedPlain}
TransportCauses == {"dial tcp: lookup uitslagen.live: no such host",
                    "context deadline exceeded (Client.Timeout exceeded while awaiting headers)"}
ReadCause == "unexpected EOF"
NewRequestCause == "net/url: invalid control character in URL"

BodyObj == <<Punct("{"), StrTok("a"), Punct(":"), NumTok(FALSE, 1), Punct("}")>>
BodyNested ==
    <<Space(" "), Punct("{"), StrTok("b"), Space(" "), Punct(":"), Punct("["),
      NumTok(FALSE, 1), Punct(","), LitTok("null"), Punct(","), Punct("{"),
      Punct("}"), Punct("]"), Punct(","), StrTok("a"), Punct(":"),
      StrTok("x"), Punct("}"), Space("\n")>>
BodyDup ==
    <<Punct("{"), StrTok("a"), Punct(":"), NumTok(FALSE, 1), Punct(","),
      StrTok("a"), Punct(":"), NumTok(FALSE, 2), Punct("}")>>
BodyBig(n) == <<Punct("{"), StrTok("id"), Punct(":"), NumTok(TRUE, n), Punct("}")>>
BodyHuge == <<Punct("["), HugeTok, Punct("]")>>
BodyText == <<Junk("not"), Space(" "), Junk("found")>>
BodyQuoted == <<StrTok("not found")>>
BodyCut == <<Punct("{"), StrTok("a"), Punct(":"), NumTok(FALSE, 1)>>
BodyEmpty == <<>>
Bodies ==
    {BodyObj, BodyNested, BodyDup, BodyHuge, BodyText, BodyQuoted, BodyCut,
     BodyEmpty} \cup {BodyBig(n) : n \in 0..MaxBig}

NoOutcome == [kind |-> "none", status |-> 0, body |-> <<>>, cause |-> "",
              location |-> <<>>]
Outcomes ==
    {[kind |-> "transport", status |-> 0, body |-> <<>>, cause |-> c,
      location |-> <<>>] : c \in TransportCauses}
    \cup {[kind |-> "readerr", status |-> st, body |-> <<>>, cause |-> ReadCause,
           location |-> <<>>] : st \in Statuses}
    \cup {[kind |-> "response", status |-> st, body |-> b, cause |-> "",
           location |-> <<>>] : st \in Statuses, b \in Bodies}
    \cup {[kind |-> "response", status |-> st, body |-> BodyText, cause |-> "",
           location |-> loc] :
               st \in RedirectStatuses \cup {StatusOK}, loc \in Locations}

\* err.Error() of the *url.Error that client.Do returns
Op(method) == IF method = "GET" THEN "Get" ELSE "Head"
URLError(op, u, cause) == <<op, " \"">> \o u \o <<"\": ", cause>>

\* Whether client.Do goes on to another request after the outcome o of a
\* GET or HEAD without a body: on the five redirect statuses, when the
\* response names a Location.
ShouldRedirect(o) ==
    /\ o.kind # "transport"
    /\ o.status \in RedirectStatuses
    /\ o.location # <<>>
\* The Referer the client gives the next request: the URL of the request
\* before it, unless that was https and the next one is not.
RefererFor(lastURL, nextURL) ==
    IF lastURL[1] = "https" /\ nextURL[1] = "http" THEN << >>
    ELSE ("Referer" :> Str(lastURL))
\* The request the client makes to follow a redirect to loc: the first
\* request's method and headers, the Referer, the Location's URL.
NextHop(first, last, loc) ==
    [method |-> first.method, url |-> loc,
     headers |-> RefererFor(last.url, loc) @@ first.headers,
     timeout |-> first.timeout]

\* ---------------------------------------------------------------- handlers
\* The s.AddTool calls of registerTools, in their order.
Registered == <<"health", "get_live_scores", "get_fixtures", "search",
                "get_league_fixtures", "get_team", "get_player", "get_match",
                "get_day_fixtures", "get_team_image">>
Tools == {"health", "get_live_scores", "get_fixtures", "search",
          "get_league_fixtures", "get_team", "get_player", "get_match",
          "get_day_fixtures", "get_team_image"}

\* The health handler (main.go:1045-1048).
HealthFixed(args) == Return(NewToolResultText(<<"Echo: ", "ok">>), Nil)
Health(args) ==
    Return(NewToolResultText(<<"Echo: ">> \o GetStr(args, "message", <<"ok">>)),
           Nil)

\* The URL the search handler builds (main.go:1090-1101).
SearchURLWithCountry(args) ==
    [scheme |-> BaseURL.scheme, host |-> BaseURL.host,
     path |-> JoinPath(BaseURL.path, PathElems(<<"search_v3">>)),
     query |-> [country |-> GetStr(args, "country", <<>>),
                q |-> GetStr(args, "q", <<>>)] @@ LangAndVersion(args)]
SearchURL(args) ==
    LET query == GetStr(args, "q", <<>>)
        country == GetStr(args, "country", <<>>)
    IN  [scheme |-> BaseURL.scheme, host |-> BaseURL.host,
         path |-> JoinPath(BaseURL.path, PathElems(<<"search_v3">>)),
         query |-> (IF country # <<>> THEN [country |-> country] ELSE << >>)
                   @@ [q |-> query] @@ LangAndVersion(args)]
\* The URL the get_team_image handler builds (main.go:1198-1201).
ImageURL(args) ==
    LET id == GetStr(args, "id", <<>>) IN
    [scheme |-> BaseURL.scheme, host |-> BaseURL.host,
     path |-> JoinPath(BaseURL.path,
                       PathElems(<<"images">>) \o PathElems(<<"teams_gs">>)
                           \o PathElems(id \o <<".png">>)),
     query |-> << >>]

\* The URL each handler asks for.
ToolURL(tool, args) ==
    CASE tool = "get_live_scores" ->
           BuildURL(<<"fixtures", "/", "feed_livenow.json">>, args, << >>)
      [] tool = "get_fixtures" ->
           BuildURL(<<"fixtures_v2", "/">> \o GetStr(args, "competition", <<>>)
                        \o <<".json">>, args, << >>)
      [] tool = "search" -> SearchURL(args)
      [] tool = "get_league_fixtures" ->
           BuildURL(<<"fixtures_v2", "/">> \o GetStr(args, "league_key", <<>>)
                        \o <<"_small.json">>, args, << >>)
      [] tool = "get_team" ->
           BuildURL(<<"team_gs", "/">> \o GetStr(args, "id", <<>>) \o <<".json">>,
                    args, << >>)
      [] tool = "get_player" ->
           BuildURL(<<"players", "/">> \o GetStr(args, "id", <<>>) \o <<".json">>,
                    args, << >>)
      [] tool = "get_match" ->
           BuildURL(<<"matches", "/">> \o GetStr(args, "id", <<>>) \o <<".json">>,
                    args, [h2h |-> Itoa(GetInt(args, "h2h", 1))])
      [] tool = "get_day_fixtures" ->
           BuildURL(<<"fixtures", "/", "feed_matches_aggregated.json">>, args,
                    [date |-> GetStr(args, "date", <<>>),
                     tzoffset |-> Itoa(GetInt(args, "tzoffset", 0))])
      [] tool = "get_team_image" -> ImageURL(args)

\* The title each handler passes to apiRequest.
ToolTitle(tool, args) ==
    CASE tool = "get_live_scores" -> <<"Live Scores">>
      [] tool = "get_fixtures" ->
           <<"Fixtures for ">> \o GetStr(args, "competition", <<>>)
      [] tool = "search" ->
           <<"Search results for '">> \o GetStr(args, "q", <<>>) \o <<"'">>
      [] tool = "get_league_fixtures" ->
           <<"League fixtures for ">> \o GetStr(args, "league_key", <<>>)
      [] tool = "get_team" -> <<"Team info for ID ">> \o GetStr(args, "id", <<>>)
      [] tool = "get_player" -> <<"Player info for ID ">> \o GetStr(args, "id", <<>>)
      [] tool = "get_match" -> <<"Match info for ID ">> \o GetStr(args, "id", <<>>)
      [] tool = "get_day_fixtures" -> <<"Fixtures for ">> \o GetStr(args, "date", <<>>)
      [] OTHER -> <<>>

\* The request each handler makes.
ToolRequest(tool, args) ==
    IF tool = "get_team_image" THEN ImageHead(URLString(ToolURL(tool, args)))
    ELSE ApiGet(URLString(ToolURL(tool, args)))

\* ------------------------------------------------------------- apiRequest
\* http.NewRequest failed (main.go:1005-1007).
NewRequestFailed(u) ==
    Return(NewToolResultError(<<"request error: ">>
                                  \o URLError("parse", u, NewRequestCause)), Nil)
\* client.Do failed (main.go:1012-1014).
RequestFailedAsGoError(rq, cause) ==
    Return(Nil, GoError(URLError(Op(rq.method), rq.url, cause)))
RequestFailed(rq, cause) ==
    Return(NewToolResultError(<<"request failed: ">>
                                  \o URLError(Op(rq.method), rq.url, cause)), Nil)
\* io.ReadAll failed (main.go:1018-1020).
ReadFailed(cause) == Return(NewToolResultError(<<"read error: ", cause>>), Nil)
\* The status test (main.go:1022, 1215): whether the response goes on as a
\* success.
StatusBelow400(status) == status < 400
StatusIsOK(status) == status = StatusOK
\* A status that is not 200 (main.go:1023).
ApiError(status, body) ==
    Return(NewToolResultError(<<"API error (status ">> \o Itoa(status) \o <<"): ">>
                                  \o Spell(body)), Nil)
\* Status 200 (main.go:1026-1033): the body re-serialised if json.Unmarshal
\* takes it, as it came otherwise.
ApiText(title, body) ==
    LET data == Unmarshal(body) IN
    Return(NewToolResultText(
               title \o <<":\n\n">>
                   \o Spell(IF data.ok THEN MarshalIndent(data.v) ELSE body)), Nil)
\* apiRequest from client.Do on (main.go:1011-1033), for the outcome o of
\* the request rq.
ApiRequestDone(rq, title, o) ==
    IF o.kind = "transport" THEN RequestFailed(rq, o.cause)
    ELSE IF o.kind = "readerr" THEN ReadFailed(o.cause)
    ELSE IF ~StatusIsOK(o.status) THEN ApiError(o.status, o.body)
    ELSE ApiText(title, o.body)

\* The get_team_image handler from client.Do on (main.go:1209-1219): the
\* body is never read.  failed is the URL client.Do reports a failure for.
ImageDone(rq, id, o, failed) ==
    IF o.kind = "transport"
    THEN Return(NewToolResultError(<<"error checking image: ">>
                    \o URLError(Op(rq.method), failed, o.cause)), Nil)
    ELSE IF ~StatusIsOK(o.status)
    THEN Return(NewToolResultError(<<"image not available (status ">>
                    \o Itoa(o.status) \o <<") for team ID ">> \o id), Nil)
    ELSE Return(NewToolResultText(<<"Team logo URL for ID ">> \o id \o <<":\n">>
                    \o rq.url), Nil)
\* http.NewRequest failed in get_team_image (main.go:1204-1206).
ImageRequestError(u) ==
    Return(NewToolResultError(<<"error: ">> \o URLError("parse", u, NewRequestCause)),
           Nil)

\* ------------------------------------------------------- tool invocations
\* The arguments a client may send.
Messages == {<<>>, <<"ping">>, <<"ok">>, <<"a", " ", "b">>}
ProperArgs ==
    MapArgs([message |-> StrV(<<"ping">>), competition |-> StrV(<<"UCL">>),
             q |-> StrV(<<"ajax">>), language |-> StrV(<<"nl">>),
             country |-> StrV(<<"Netherlands">>),
             league_key |-> StrV(<<"NetherlandsEredivisie">>),
             id |-> StrV(<<"13183">>), h2h |-> NumV(0),
             date |-> StrV(<<"30", "/", "08", "/", "2025">>),
             tzoffset |-> NumV(1200), version |-> NumV(30000)])
EmptyArgs ==
    MapArgs([message |-> StrV(<<>>), competition |-> StrV(<<>>),
             q |-> StrV(<<>>), language |-> StrV(<<>>), country |-> StrV(<<>>),
             league_key |-> StrV(<<>>), id |-> StrV(<<>>),
             date |-> StrV(<<>>)])
WrongTypedArgs ==
    MapArgs([message |-> NumV(10), competition |-> BoolV(TRUE),
             q |-> NumV(0), language |-> NumV(20), country |-> BoolV(FALSE),
             league_key |-> NumV(10), id |-> NumV(131830),
             h2h |-> StrV(<<"0">>), date |-> NumV(300),
             tzoffset |-> StrV(<<"120">>), version |-> StrV(<<"1">>)])
OddArgs ==
    MapArgs([message |-> StrV(<<"..", "/", "x">>),
             competition |-> StrV(<<"..", "/", "..", "/", "x">>),
             q |-> StrV(<<"a", " ", "b", "/", "c", ":", "d">>),
             league_key |-> StrV(<<"a", "/", ".", "/", "b">>),
             id |-> StrV(<<"..", "/", "13183">>), h2h |-> NumV(15),
             date |-> StrV(<<"..">>), tzoffset |-> NumV(-5),
             version |-> NumV(-15)])
\* Identifiers with the characters that end a path in a URL, and with more
\* ".." than the path is deep.
MarkArgs ==
    MapArgs([competition |-> StrV(<<"a", "?", "b">>),
             q |-> StrV(<<"a", "?", "b", "#", "c">>),
             league_key |-> StrV(<<"..", "/", "..", "/", "..", "/", "x">>),
             id |-> StrV(<<"x", "#", "y", " ", "z">>),
             date |-> StrV(<<"..", "/", "..">>),
             country |-> StrV(<<"#">>), language |-> StrV(<<"?">>)])
ArgValues ==
    {NotAMap, MapArgs(<< >>), ProperArgs, EmptyArgs, WrongTypedArgs, OddArgs,
     MarkArgs}
    \cup {MapArgs([message |-> StrV(m)]) : m \in Messages}

NoReturn == Return(Nil, Nil)
NoCall == [pc |-> "idle", tool |-> "", args |-> NotAMap, request |-> NoRequest,
           title |-> <<>>, id |-> <<>>, outcome |-> NoOutcome,
           ret |-> NoReturn, returns |-> 0]
\* The server with its tools registered and no invocation under way.
ToolInit ==
    /\ call = NoCall
    /\ sent = <<>>

\* The server as main leaves it.
Init == LimiterInit /\ ToolInit

\* The invocation c returning ret.
Returned(c, ret) ==
    [c EXCEPT !.pc = "returned", !.ret = ret, !.returns = c.returns + 1]

\* A handler is called with its arguments and runs until it returns, or
\* until it waits for the upstream.  newRequestFails: whether http.NewRequest
\* returns an error.
ToolCall(tool, args, newRequestFails) ==
    LET rq == ToolRequest(tool, args)
        c == [NoCall EXCEPT !.tool = tool, !.args = args]
    IN
    /\ call.pc = "idle"
    /\ IF tool = "health"
       THEN /\ call' = Returned(c, Health(args))
            /\ sent' = sent
       ELSE LET c2 == [c EXCEPT !.request = rq,
                                !.title = ToolTitle(tool, args),
                                !.id = GetStr(args, "id", <<>>)]
            IN  IF newRequestFails
                THEN /\ call' = Returned(c2, IF tool = "get_team_image"
                                             THEN ImageRequestError(rq.url)
                                             ELSE NewRequestFailed(rq.url))
                     /\ sent' = sent
                ELSE /\ call' = [c2 EXCEPT !.pc = "waiting"]
                     /\ sent' = Append(sent, rq)
    /\ UNCHANGED limVars

\* The handler from the return of client.Do on, for the outcome o that
\* client.Do ended with; failed is the request a failure is reported for.
HandlerDone(c, failed, o) ==
    Returned([c EXCEPT !.outcome = o],
             IF c.tool = "get_team_image"
             THEN ImageDone(c.request, c.id, o, failed)
             ELSE ApiRequestDone([c.request EXCEPT !.url = failed], c.title, o))
\* What client.Do reports when the response to its tenth request is one
\* more redirect: an error naming the Location.
Stopped(o) ==
    [kind |-> "transport", status |-> 0, body |-> <<>>, cause |-> RedirectCause,
     location |-> o.location]

\* The latest request of client.Do (main.go:1011, 1209) comes to the
\* outcome o.  A redirect is followed with one more request, up to the
\* limit; on any other outcome, and at the limit, client.Do returns and
\* the handler runs to its return.  A failure is reported for the URL of
\* the latest request, the limit for the Location not followed.
Upstream(o) ==
    /\ call.pc = "waiting"
    /\ LET last == sent[Len(sent)] IN
       IF ShouldRedirect(o)
       THEN IF Len(sent) < RedirectLimit
            THEN /\ call' = call
                 /\ sent' = Append(sent, NextHop(call.request, last, o.location))
            ELSE /\ call' = HandlerDone(call, o.location, Stopped(o))
                 /\ sent' = sent
       ELSE /\ call' = HandlerDone(call, last.url, o)
            /\ sent' = sent
    /\ UNCHANGED limVars

\* The server hands the result to the client; the next invocation may come.
ToolDone ==
    /\ call.pc = "returned"
    /\ call' = NoCall
    /\ sent' = <<>>
    /\ UNCHANGED limVars

\* The request goroutines past their arrival, and the cleanup goroutine.
Limiter(procs) ==
    \/ \E p \in procs : GetLimiterLock(p)
    \/ \E p \in procs : GetLimiterBody(p)
    \/ \E p \in procs : AllowTime(p)
    \/ \E p \in procs : AllowReserve(p)
    \/ \E p \in procs : Respond(p)
    \/ SweepLock
    \/ \E k \in Keys : SweepExamine(k)
    \/ SweepUnlock

\* The concurrent runs have two request goroutines, however many requests
\* come: one request and another that makes the entry, or charges the
\* bucket, in between.  (StallSpec has more of them.)
Pair == {p \in Procs : p <= 2}

\* Concurrent runs: two request goroutines and the cleanup goroutine,
\* MaxRequests requests; the clock moves by the idle threshold exactly, or
\* to just beyond it.
Steps == {IdleSec, IdleSec + 1}

Next ==
    \/ \E p \in Pair, r \in Requests : Arrive(p, r, TRUE, MaxRequests)
    \/ Limiter(Pair)
    \/ \E d \in Steps : Tick(d, MaxTicks)

\* The state one second-0 burst of Client leaves behind: Burst requests
\* accepted one after another, the bucket empty.
BurstLeft(on) ==
    LET k == ClientIP(Client.remoteAddr, Client.fwd) IN
    /\ now = 0
    /\ ticks = 0
    /\ arrivals = 0
    /\ mu = Free
    /\ visitors = (k :> [limiter |-> 1, lastSeen |-> 0])
    /\ limiters = (1 :> [tokens |-> 0, last |-> 0])
    /\ req = [p \in Procs |->
                IF p = 1 THEN [IdleProc EXCEPT !.pc = "done", !.r = Client,
                                               !.path = MessagePath, !.ip = k]
                         ELSE IdleProc]
    /\ resp = [p \in Procs |->
                IF p = 1 THEN [Accepted(Client) EXCEPT !.hadToken = TRUE]
                         ELSE NoResp]
    /\ sweep = [pc |-> "sleep", wake |-> SweepSec, todo |-> {},
                started |-> -1, removed |-> {}]
    /\ burst = (k :> [calls |-> Burst, accepts |-> Burst, rejects |-> 0])
    /\ paced = (k :> OffPace)
    /\ win = NoWindow
    /\ ref = [on |-> on,
              of |-> IF on
                     THEN (k :> [tokens |-> 0, last |-> 0, refOk |-> TRUE,
                                 ok |-> TRUE, at |-> 0, seen |-> 0])
                     ELSE << >>]
    /\ ToolInit
AfterBurst == BurstLeft(FALSE)
\* The same two starts with the observer on.
ObservedInit == LimiterStart(TRUE) /\ ToolInit
ObservedAfterBurst == BurstLeft(TRUE)

\* A concurrent run starts with the server, or right after such a burst.
Spec == (Init \/ AfterBurst) /\ [][Next]_vars

\* One client after another: a single request goroutine, so that a request
\* is over before the next one arrives.  Client sends as often as it likes,
\* the others MaxOthers requests; the clock also moves by one second.
SeqSteps == {1, RefillSec, IdleSec + 1}

SeqNext ==
    \/ Arrive(1, Client, FALSE, 0)
    \/ \E r \in Requests \ {Client} : Arrive(1, r, TRUE, MaxOthers)
    \/ Limiter({1})
    \/ \E d \in SeqSteps : Tick(d, MaxSeqTicks)

SeqSpec == Init /\ [][SeqNext]_vars

\* A client that keeps the pace: a single request goroutine, the clock
\* moves by the refill interval or to just beyond the idle threshold, often
\* enough for more paced requests than a bucket holds tokens, and beyond
\* the idle threshold once; Client sends one request in each interval, the
\* others send MaxOthers requests (one of them with Client's key), and the
\* cleanup goroutine sweeps.
PaceSteps == {RefillSec, IdleSec + 1}

\* Client has no entry, or its entry was last used a refill interval ago.
PaceKept ==
    LET k == ClientIP(Client.remoteAddr, Client.fwd) IN
    k \in DOMAIN visitors => visitors[k].lastSeen + RefillSec <= now
\* Client's entry was used at the present time.
PaceUsed ==
    LET k == ClientIP(Client.remoteAddr, Client.fwd) IN
    k \in DOMAIN visitors /\ visitors[k].lastSeen = now

PaceNext ==
    \/ PaceKept /\ Arrive(1, Client, FALSE, 0)
    \/ \E r \in Requests \ {Client} : Arrive(1, r, TRUE, MaxOthers)
    \/ Limiter({1})
    \/ /\ PaceUsed
       /\ \E d \in PaceSteps : (d > RefillSec => now <= IdleSec)
                                    /\ Tick(d, MaxPaceTicks)

PaceSpec == Init /\ [][PaceNext]_vars

\* A client that keeps the pace while its requests are held up: one more
\* request goroutine than a bucket holds tokens.  Client sends one request
\* in each refill interval, and every request reads the clock in Allow
\* before the clock moves on.  A request then makes its token check in the
\* interval it came in, or its goroutine is held up before the limiter's
\* mutex until the clock has moved Burst times; the ones held up are let
\* go latest first.  A request whose token check is made is answered
\* before the next check.
Waiters == 1..(Burst + 1)
StallInit == LimiterStartOn(FALSE, Waiters) /\ ToolInit
\* Every request on its way has read the clock.
ClockRead == \A p \in DOMAIN req : req[p].pc \notin {"lock", "locked", "allow"}
\* No request waits for its answer.
NoneUnanswered == \A p \in DOMAIN req : req[p].pc # "respond"
\* The goroutine of request p, which waits for the limiter's mutex, runs
\* on.
LetGo(p) ==
    /\ NoneUnanswered
    /\ req[p].pc = "reserve"
    /\ req[p].t = now \/ ticks = Burst
    /\ \A q \in DOMAIN req : req[q].pc = "reserve" => req[q].t <= req[p].t

StallNext ==
    \/ PaceKept /\ ClockRead /\ \E p \in Waiters : Arrive(p, Client, FALSE, 0)
    \/ \E p \in Waiters : GetLimiterLock(p)
    \/ \E p \in Waiters : GetLimiterBody(p)
    \/ \E p \in Waiters : AllowTime(p)
    \/ \E p \in Waiters : LetGo(p) /\ AllowReserve(p)
    \/ \E p \in Waiters : Respond(p)
    \/ /\ PaceUsed
       /\ ClockRead
       /\ NoneUnanswered
       /\ Tick(RefillSec, Burst)

StallSpec == StallInit /\ [][StallNext]_vars

\* The same runs with the observer of the never-removed buckets on.
ObservedSeqSpec == ObservedInit /\ [][SeqNext]_vars

\* Retries: two request goroutines and the cleanup goroutine, the
\* requests of one key, straight and through a proxy; the clock moves by a
\* second, by the refill interval, by the advertised Retry-After, by the
\* idle threshold, or to just beyond it.
RetrySteps == {1, RefillSec, RetryAfterSec, IdleSec, IdleSec + 1}

RetryNext ==
    \/ \E p \in Pair, r \in {q \in Requests :
                                 ClientIP(q.remoteAddr, q.fwd)
                                     = ClientIP(Client.remoteAddr, Client.fwd)} :
          Arrive(p, r, TRUE, MaxRequests)
    \/ Limiter(Pair)
    \/ \E d \in RetrySteps : Tick(d, MaxTicks)

RetrySpec == (ObservedInit \/ ObservedAfterBurst) /\ [][RetryNext]_vars

\* One client, two refill intervals at a time, while an observer counts
\* what is accepted in one window of WindowSec seconds that opens no later
\* than MaxWinStart; the run ends when the window is over.  The cleanup
\* goroutine sleeps through it: the run is shorter than SweepSec.
WinStep == 2 * RefillSec
WinEnd == IF win.open THEN win.start + WindowSec + 1 ELSE MaxWinStart * WinStep

WinNext ==
    \/ Arrive(1, Client, FALSE, 0)
    \/ GetLimiterLock(1)
    \/ GetLimiterBody(1)
    \/ AllowTime(1)
    \/ AllowReserve(1)
    \/ Respond(1)
    \/ OpenWindow(ClientIP(Client.remoteAddr, Client.fwd))
    \/ /\ now < WinEnd
       /\ Tick(WinStep, WinEnd)

WinSpec == Init /\ [][WinNext]_vars

\* Concurrent runs under fair scheduling: the requests of one client on
\* two goroutines, and the cleanup goroutine.  A goroutine that can
\* take a step takes it in the end; a goroutine waiting in rl.mu.Lock()
\* gets the mutex if it is released again and again (sync.Mutex hands a
\* starving waiter the mutex).  The clock owes nobody a step.
LiveNext ==
    \/ \E p \in Pair : Arrive(p, Client, TRUE, MaxRequests)
    \/ Limiter(Pair)
    \/ Tick(IdleSec + 1, MaxTicks)

Fairness ==
    /\ \A p \in Pair :
          /\ SF_vars(GetLimiterLock(p))
          /\ WF_vars(GetLimiterBody(p))
          /\ WF_vars(AllowTime(p))
          /\ WF_vars(AllowReserve(p))
          /\ WF_vars(Respond(p))
    /\ SF_vars(SweepLock)
    /\ WF_vars(\E k \in Keys : SweepExamine(k))
    /\ WF_vars(SweepUnlock)

LiveSpec == (Init \/ AfterBurst) /\ [][LiveNext]_vars /\ Fairness

\* Requests from every kind of remote address: two request goroutines and
\* the cleanup goroutine, MaxRequests requests, the clock moving to just
\* beyond the idle threshold and no further: the run is over one sweep
\* cycle after that.
KeyNext ==
    \/ \E p \in Pair, r \in KeyRequests : Arrive(p, r, TRUE, MaxRequests)
    \/ \E p \in Pair : GetLimiterLock(p)
    \/ \E p \in Pair : GetLimiterBody(p)
    \/ \E p \in Pair : AllowTime(p)
    \/ \E p \in Pair : AllowReserve(p)
    \/ \E p \in Pair : Respond(p)
    \/ SweepLock
    \/ \E k \in KeyKeys : SweepExamine(k)
    \/ SweepUnlock
    \/ /\ now <= IdleSec
       /\ Tick(IdleSec + 1, MaxTicks)

KeySpec == Init /\ [][KeyNext]_vars

\* Requests for every path: MaxProcs request goroutines and the cleanup
\* goroutine, MaxRequests requests of one client.
MuxNext ==
    \/ \E p \in Procs, method \in Methods, path \in Paths, found \in BOOLEAN :
          Dispatch(p, Client, method, path, found, MaxRequests)
    \/ Limiter(Procs)
    \/ Tick(IdleSec + 1, MaxTicks)

MuxSpec == (Init \/ AfterBurst) /\ [][MuxNext]_vars

\* Where the upstream sends a client that asked for url: from Moved to
\* Moved again, from any other URL to either location.  A chain of
\* redirects leaves https for http at most once, goes on in http as long
\* as it likes, and may come back to https.
RedirectsFrom(url) == IF url = Moved THEN {Moved} ELSE Locations

\* Tool invocations one at a time: any tool, any of the argument values,
\* any upstream outcome.
ToolNext ==
    \/ \E tool \in Tools, args \in ArgValues, f \in BOOLEAN : ToolCall(tool, args, f)
    \/ \E o \in Outcomes :
          /\ o.location # <<>> =>
                sent # <<>> /\ o.location \in RedirectsFrom(sent[Len(sent)].url)
          /\ Upstream(o)
    \/ ToolDone

ToolSpec == Init /\ [][ToolNext]_vars

TypeOK ==
    /\ now \in Nat
    /\ mu \in {Free, Sweeper} \cup Procs
    /\ DOMAIN visitors \subseteq Keys
    /\ \A k \in DOMAIN visitors : visitors[k].limiter \in DOMAIN limiters
    /\ \A l \in DOMAIN limiters : limiters[l].tokens \in 0..(Burst * RefillSec)

\* ================================================================== claims

\* The state AfterBurst describes is one the program reaches from its start
\* (checked under SeqSpec: its negation is violated).
AfterBurstReached == AfterBurst

\* C1: every request that went through the middleware has exactly one of
\* two outcomes.  Either the bucket held a token, and the wrapped handler
\* was called exactly once, with the request as it arrived, and the
\* middleware wrote nothing; or the bucket held no token, and the response
\* is status 429 with Retry-After: 60 and the fixed JSON body, and the
\* wrapped handler was not called.  Until then, the token check made or
\* not, nothing is written and the handler is not called.
C1_OneOutcome ==
    \A p \in Procs :
        LET rs == resp[p] IN
        IF req[p].pc = "done"
        THEN \/ /\ rs.hadToken
                /\ rs.nextCalls = 1
                /\ rs.nextArg = req[p].r
                /\ rs.status = 0 /\ rs.retryAfter = "" /\ rs.body = ""
             \/ /\ ~rs.hadToken
                /\ rs.status = StatusTooManyRequests
                /\ rs.retryAfter = ToString(RetryAfterSec)
                /\ rs.body = RateLimitBody
                /\ rs.nextCalls = 0
        ELSE rs = NoResp
\* Two requests are over, one accepted and one rejected.
C1_Witness ==
    \E p, q \in Procs :
        /\ req[p].pc = "done" /\ resp[p].nextCalls = 1
        /\ req[q].pc = "done" /\ resp[q].status = StatusTooManyRequests

\* The requests of key k whose Allow call, counted in this second's burst,
\* took no token, and which are not answered yet.
Unanswered(k) ==
    {p \in Procs : /\ req[p].pc = "respond" /\ req[p].ip = k
                   /\ req[p].inBurst = now /\ ~req[p].ok}

\* C2: of the Allow calls made on a key's bucket in the second the bucket
\* was created, the first Burst are accepted and every later one is
\* rejected with status 429 and a Retry-After header: accepted calls =
\* min(calls, Burst), and the calls that were not accepted are those
\* answered with the rejection and those not answered yet.
C2_BurstThenReject ==
    \A k \in DOMAIN burst :
        /\ burst[k].accepts = Min(burst[k].calls, Burst)
        /\ burst[k].rejects + Cardinality(Unanswered(k))
              = burst[k].calls - burst[k].accepts
\* More than Burst requests came in the second the bucket was created.
C2_Witness ==
    \E k \in DOMAIN burst :
        burst[k].calls = Burst + MaxExcess /\ burst[k].rejects = MaxExcess

\* C3: a key whose requests each read, in Allow, a time at least RefillSec
\* seconds after the time the request before it read has had none of them
\* rejected, however many there were, whatever sweeps and requests of
\* other keys came in between.
C3_PacedAccepted ==
    \A k \in DOMAIN paced : paced[k].ok => ~paced[k].rejected
\* What does hold, with the token checks of a key made in the order of
\* their clock readings (PaceSpec): a key kept the pace over more requests
\* than a bucket holds tokens, all on the one bucket it got at first,
\* while another key sent requests and a sweep removed that key's entry.
\* In a run of PaceSpec the clock moves only from a time at which the
\* key's entry was used (PaceUsed); here it has moved Burst times by the
\* refill interval and once beyond the idle threshold, so the key has sent
\* at least Burst + 1 requests, the latest of which read the present time.
C3_Witness ==
    \E k \in DOMAIN paced :
        /\ paced[k].ok /\ paced[k].n = 2 /\ paced[k].last = now
        /\ k = ClientIP(Client.remoteAddr, Client.fwd)
        /\ ticks = Burst + 1
        /\ now = Burst * RefillSec + IdleSec + 1
        /\ k \notin sweep.removed
        /\ DOMAIN paced # {k}
        /\ sweep.removed # {}

\* C4 as stated: in any window of WindowSec seconds at most RatePerMin
\* requests of one key are accepted.
C4_Original == win.count <= RatePerMin
\* The window that breaks it: Burst + WindowSec / RefillSec (= 40) requests
\* of one key were accepted in it, the burst the bucket held when the
\* window opened and one request per refill interval since.
C4_FortyInWindow == win.open /\ win.count = Burst + WindowSec \div RefillSec

\* C5: once a sweep cycle has run, no entry is left in the map that had
\* been idle for longer than IdleSec when the cycle started; and a request
\* that found no entry for its key is accepted, leaving a bucket that has
\* Burst tokens less the one it took.
C5_IdleEvictedThenFresh ==
    /\ (sweep.pc = "sleep" /\ sweep.started >= 0) =>
           \A k \in DOMAIN visitors :
               sweep.started - visitors[k].lastSeen <= IdleSec
    /\ \A p \in Procs :
           (req[p].pc = "done" /\ req[p].fresh) =>
               /\ resp[p].nextCalls = 1
               /\ req[p].ip \in DOMAIN visitors =>
                      limiters[visitors[req[p].ip].limiter].tokens
                          = (Burst - 1) * RefillSec
\* A key's entry was removed by a sweep, and a later request of that key
\* was served from a new bucket.
C5_Witness ==
    \E p \in Procs :
        /\ req[p].pc = "done" /\ req[p].fresh
        /\ req[p].ip \in sweep.removed
        /\ req[p].ip \in DOMAIN visitors
        /\ now > IdleSec

\* ------------------------------------------------------ the tools' results
\* The invocation has returned.
HasReturned == call.pc = "returned"
\* The text of the result returned.
ResultText == call.ret.result.content[1].text
\* The invocation has returned from apiRequest with a response whose body
\* was read.
GotResponse ==
    /\ HasReturned
    /\ call.request.method = "GET"
    /\ call.outcome.kind = "response"
Is2xx(status) == status \in 200..299

\* What an invocation that has returned gave back: one result, not nil,
\* holding one text, either not an error or an error, and a nil Go error.
OneResult ==
    /\ call.returns = 1
    /\ call.ret.err = Nil
    /\ ~call.ret.result.nil
    /\ Len(call.ret.result.content) = 1
    /\ call.ret.result.content[1].type = "text"
    /\ call.ret.result.isError \in BOOLEAN
\* C6: whatever the tool, the argument value and the upstream outcome, a
\* handler that has returned gave back exactly one result, Text or Error,
\* and a nil Go error; a handler called returns at once or waits for the
\* upstream, and every upstream outcome makes a waiting handler return,
\* but for a redirect, which makes the client send one request more, the
\* tenth being the last: the handler waits for ten outcomes at most.
C6_AlwaysOneResult ==
    [][/\ HasReturned' => OneResult'
       /\ call.pc = "idle" => call'.pc \in {"waiting", "returned"}
       /\ call.pc = "waiting" =>
              \/ HasReturned'
              \/ /\ call' = call
                 /\ Len(sent') = Len(sent) + 1
                 /\ Len(sent') <= RedirectLimit]_vars
\* C6 witness: a handler called with arguments that are no map, whose
\* upstream request failed in transport, has returned an Error result.
C6_Witness ==
    /\ HasReturned
    /\ call.tool = "get_match"
    /\ call.args = NotAMap
    /\ call.outcome.kind = "transport"
    /\ call.outcome.cause # RedirectCause
    /\ call.ret.err = Nil
    /\ call.ret.result.isError
\* A handler whose tenth request was answered with one more redirect has
\* returned an Error result.
C6_WitnessStopped ==
    /\ HasReturned
    /\ call.tool = "get_match"
    /\ Len(sent) = RedirectLimit
    /\ call.outcome.cause = RedirectCause
    /\ call.ret.err = Nil
    /\ call.ret.result.isError

\* C7 as stated: a GET response gives an Error exactly when its status is
\* outside 200..299, the Error's message holding the status and the body.
C7_Original ==
    GotResponse =>
        /\ call.ret.result.isError <=> ~Is2xx(call.outcome.status)
        /\ call.ret.result.isError =>
              /\ Contains(ResultText, Itoa(call.outcome.status))
              /\ Contains(ResultText, Spell(call.outcome.body))
\* C7, corrected: a GET response whose body was read gives an Error exactly
\* when its status is not 200, and that Error's message holds the status
\* code and the raw body; status 200 gives a Text result.
C7_ErrorIffNot200 ==
    GotResponse =>
        /\ call.ret.result.isError <=> call.outcome.status # StatusOK
        /\ call.ret.result.isError =>
              /\ Contains(ResultText, Itoa(call.outcome.status))
              /\ Contains(ResultText, Spell(call.outcome.body))
\* C7 witness: status 404 with the body "not found" has given an Error
\* whose message holds 404 and the body.
C7_Witness ==
    /\ GotResponse
    /\ call.outcome.status = 404
    /\ call.outcome.body = BodyQuoted
    /\ call.ret.result.isError
    /\ Contains(ResultText, <<"404">>)
    /\ Contains(ResultText, <<"\"not found\"">>)

\* C8 as stated: for a response with status 200 the Text result is the
\* title, ":\n\n", and then the indented serialisation of the very value
\* the body denotes when the body is JSON, the body as it came when not.
C8_SameValueOrRaw ==
    (GotResponse /\ call.outcome.status = StatusOK) =>
        LET parsed == ParseJSON(call.outcome.body) IN
        /\ ~call.ret.result.isError
        /\ ResultText = call.title \o <<":\n\n">>
               \o Spell(IF parsed.ok THEN MarshalIndent(parsed.v)
                                     ELSE call.outcome.body)

\* C9: an invocation has sent at most one upstream request, health none;
\* one that returned after a transport failure, or after a status outside
\* 200..299, sent exactly one and returned an Error holding the error text
\* (the cause of the failure, the status code of the response).
C9_AtMostOneRequest ==
    /\ Len(sent) <= 1
    /\ call.tool = "health" => Len(sent) = 0
    /\ (HasReturned /\ call.outcome.kind = "transport") =>
          /\ Len(sent) = 1
          /\ call.ret.result.isError
          /\ Contains(ResultText, <<call.outcome.cause>>)
    /\ (HasReturned /\ call.outcome.kind = "response"
            /\ ~Is2xx(call.outcome.status)) =>
          /\ Len(sent) = 1
          /\ call.ret.result.isError
          /\ Contains(ResultText, Itoa(call.outcome.status))
\* The case that breaks the claim: get_team got status 301 with a Location
\* for its request, a second request went to the Location and got status
\* 200 with the body {"a":1}, and the tool returned that as its Text.
C9_Redirected ==
    /\ HasReturned
    /\ call.tool = "get_team"
    /\ call.args = ProperArgs
    /\ Len(sent) = 2
    /\ sent[1] = call.request
    /\ sent[2].url = Moved
    /\ ~call.ret.result.isError
    /\ Str(ResultText) = "Team info for ID 13183:\n\n{\n  \"a\": 1\n}"

\* health has returned for a message argument that is a string.
HealthEchoed ==
    /\ HasReturned
    /\ call.tool = "health"
    /\ call.args.isMap
    /\ "message" \in DOMAIN call.args.m
    /\ call.args.m["message"].t = "string"
\* C10 as stated: for every string message, the empty one too, health
\* returns the Text "Echo: " followed by the message, and sends nothing.
C10_Original ==
    HealthEchoed =>
        /\ ~call.ret.result.isError
        /\ Str(ResultText) = "Echo: " \o Str(call.args.m["message"].s)
        /\ sent = <<>>
\* C10, corrected: for every message that is a string and not empty, health
\* returns the Text "Echo: " followed by the message, and sends nothing.
C10_EchoNonEmpty ==
    (HealthEchoed /\ call.args.m["message"].s # <<>>) =>
        /\ ~call.ret.result.isError
        /\ Str(ResultText) = "Echo: " \o Str(call.args.m["message"].s)
        /\ sent = <<>>
\* C10 witness: health called with the message "ping" has returned the Text
\* "Echo: ping" with nothing sent.
C10_Witness ==
    /\ HealthEchoed
    /\ call.args.m["message"].s = <<"ping">>
    /\ ~call.ret.result.isError
    /\ Str(ResultText) = "Echo: ping"
    /\ sent = <<>>

\* ------------------------------------------------- arguments and the URL
\* A handler has been called and has built its request.
Called == call.pc \in {"waiting", "returned"}
\* The parameter each tool declares with mcp.Required(), if it has one.
RequiredParam(tool) ==
    CASE tool = "health" -> "message"
      [] tool = "get_fixtures" -> "competition"
      [] tool = "search" -> "q"
      [] tool = "get_league_fixtures" -> "league_key"
      [] tool \in {"get_team", "get_player", "get_match", "get_team_image"} -> "id"
      [] tool = "get_day_fixtures" -> "date"
      [] OTHER -> ""
\* The arguments hold nothing under the name key.
Absent(args, key) == ~args.isMap \/ key \notin DOMAIN args.m
\* The text t up to its first piece c.
RECURSIVE UpTo(_, _)
UpTo(t, c) ==
    IF t = <<>> \/ Head(t) = c THEN <<>> ELSE <<Head(t)>> \o UpTo(Tail(t), c)
\* The URL of the request: its scheme and host, its path, and its query.
\* A "?" or "#" inside the path or the query is escaped, so the first "?"
\* piece is the one that starts the query.
RequestOrigin == Str(SubSeq(call.request.url, 1, 3))
RequestPath ==
    Str(UpTo(SubSeq(call.request.url, 4, Len(call.request.url)), "?"))
RequestQuery ==
    LET u == call.request.url
        n == Len(UpTo(u, "?"))
    IN  IF n = Len(u) THEN <<>> ELSE SubSeq(u, n + 2, Len(u))
\* The query has the parameter k with the value v (as pieces, escaped).
HasParam(k, v) ==
    LET q == <<"&">> \o RequestQuery \o <<"&">> IN
    Contains(q, <<"&", k, "=">> \o v \o <<"&">>)
\* The query has a parameter k.
HasKey(k) == Contains(<<"&">> \o RequestQuery, <<"&", k, "=">>)
\* The catalog's path template of each tool with v in the place of its
\* argument, under the base path.
CatalogPath(tool, v) ==
    "/footapi/" \o
    (CASE tool = "get_live_scores" -> "fixtures/feed_livenow.json"
       [] tool = "get_fixtures" -> "fixtures_v2/" \o v \o ".json"
       [] tool = "search" -> "search_v3"
       [] tool = "get_league_fixtures" -> "fixtures_v2/" \o v \o "_small.json"
       [] tool = "get_team" -> "team_gs/" \o v \o ".json"
       [] tool = "get_player" -> "players/" \o v \o ".json"
       [] tool = "get_match" -> "matches/" \o v \o ".json"
       [] tool = "get_day_fixtures" -> "fixtures/feed_matches_aggregated.json"
       [] tool = "get_team_image" -> "images/teams_gs/" \o v \o ".png"
       [] OTHER -> "")
\* A tool other than health was called without its required parameter: the
\* request it built has the empty string in the parameter's place.
EmptyInterpolated ==
    /\ RequestPath = CatalogPath(call.tool, "")
    /\ call.tool = "search" => HasParam("q", <<>>)
    /\ call.tool = "get_day_fixtures" => HasParam("date", <<>>)
    /\ call.pc = "waiting" => (sent # <<>> /\ sent[1] = call.request)
\* The tool called declares a required parameter, and the arguments lack it.
RequiredAbsent ==
    /\ Called
    /\ RequiredParam(call.tool) # ""
    /\ Absent(call.args, RequiredParam(call.tool))

\* C11 as stated: a call without its required parameter is not rejected;
\* the parameter resolves to the empty string and is used as such, by
\* health in its echo, by the other tools in the path or query.
C11_Original ==
    RequiredAbsent =>
        IF call.tool = "health"
        THEN /\ ~call.ret.result.isError
             /\ Str(ResultText) = "Echo: "
        ELSE EmptyInterpolated
\* C11, corrected: a call without its required parameter is not rejected;
\* for every tool but health the parameter resolves to the empty string and
\* is used as such in the path or query, and for health the message
\* resolves to "ok", so that the result is the Text "Echo: ok".
C11_AbsentRequired ==
    RequiredAbsent =>
        IF call.tool = "health"
        THEN /\ ~call.ret.result.isError
             /\ Str(ResultText) = "Echo: ok"
        ELSE EmptyInterpolated
\* C11 witness: get_team called with an empty argument map waits for the
\* answer to its request for /footapi/team_gs/.json.
C11_Witness ==
    /\ call.pc = "waiting"
    /\ call.tool = "get_team"
    /\ call.args = MapArgs(<< >>)
    /\ RequestPath = "/footapi/team_gs/.json"
    /\ Len(sent) = 1

\* The tools whose URL has a query: those that use buildURL, and search.
QueryTools == Tools \ {"health", "get_team_image"}
\* The argument under the name key is a string that is not empty.
IsText(args, key) ==
    /\ ~Absent(args, key)
    /\ args.m[key].t = "string"
    /\ args.m[key].s # <<>>
\* The argument under the name key is a number.
IsNumber(args, key) == ~Absent(args, key) /\ args.m[key].t = "number"
\* A number given in tenths, as a decimal numeral.
Numeral(tenths) ==
    LET a == IF tenths < 0 THEN -tenths ELSE tenths IN
    <<(IF tenths < 0 THEN "-" ELSE "") \o ToString(a \div 10)
          \o (IF a % 10 = 0 THEN "" ELSE "." \o ToString(a % 10))>>
\* A number given in tenths, its fraction cut off, as a decimal numeral.
WholeNumeral(tenths) ==
    LET a == IF tenths < 0 THEN -tenths ELSE tenths IN
    <<(IF tenths < 0 /\ a >= 10 THEN "-" ELSE "") \o ToString(a \div 10)>>
\* The query's lang is the language argument, or "en".
LangResolved ==
    HasParam("lang", IF IsText(call.args, "language")
                     THEN QueryEscape(call.args.m["language"].s)
                     ELSE <<"en">>)

\* C12 as stated: the query of every tool that has one holds lang, the
\* language argument or "en", and version, the version argument when that
\* is a number and 2800 otherwise.
C12_Original ==
    (Called /\ call.tool \in QueryTools) =>
        /\ LangResolved
        /\ HasParam("version", IF IsNumber(call.args, "version")
                               THEN Numeral(call.args.m["version"].tenths)
                               ELSE <<"2800">>)
\* C12, corrected: the query of every tool that has one holds lang, the
\* language argument when that is a non-empty string and "en" otherwise,
\* and version, the version argument with its fraction cut off when that is
\* a number and 2800 otherwise; the request is built and sent.
C12_LangAndVersion ==
    (Called /\ call.tool \in QueryTools) =>
        /\ LangResolved
        /\ HasParam("version", IF IsNumber(call.args, "version")
                               THEN WholeNumeral(call.args.m["version"].tenths)
                               ELSE <<"2800">>)
        /\ call.pc = "waiting" => (sent # <<>> /\ sent[1] = call.request)
\* C12 witness: search called with language 20 and version "1", neither of
\* the declared type, has sent a request with lang=en and version=2800.
C12_Witness ==
    /\ call.pc = "waiting"
    /\ call.tool = "search"
    /\ call.args = WrongTypedArgs
    /\ HasParam("lang", <<"en">>)
    /\ HasParam("version", <<"2800">>)
    /\ Len(sent) = 1

\* The query's parameter k is the number argument under the name key, its
\* fraction cut off, or the default when that argument is no number.
NumberResolved(k, key, default) ==
    HasParam(k, IF IsNumber(call.args, key)
                THEN WholeNumeral(call.args.m[key].tenths)
                ELSE <<ToString(default)>>)

\* C13 as stated: get_match sends h2h=1 when h2h is absent and the number
\* supplied when a number is supplied, 0 included; get_day_fixtures sends
\* tzoffset=0 when tzoffset is absent and the number supplied otherwise.
C13_Original ==
    /\ (Called /\ call.tool = "get_match") =>
          /\ Absent(call.args, "h2h") => HasParam("h2h", <<"1">>)
          /\ IsNumber(call.args, "h2h") =>
                HasParam("h2h", Numeral(call.args.m["h2h"].tenths))
    /\ (Called /\ call.tool = "get_day_fixtures") =>
          /\ Absent(call.args, "tzoffset") => HasParam("tzoffset", <<"0">>)
          /\ IsNumber(call.args, "tzoffset") =>
                HasParam("tzoffset", Numeral(call.args.m["tzoffset"].tenths))
\* C13, corrected: get_match sends h2h=1 when h2h is absent or no number,
\* and the number supplied with its fraction cut off otherwise, so that 0
\* gives h2h=0; get_day_fixtures does the same for tzoffset with the
\* default 0.
C13_NumberOrDefault ==
    /\ (Called /\ call.tool = "get_match") => NumberResolved("h2h", "h2h", 1)
    /\ (Called /\ call.tool = "get_day_fixtures") =>
          NumberResolved("tzoffset", "tzoffset", 0)
\* C13 witness: get_match called with h2h 0 has sent a request with h2h=0.
C13_Witness ==
    /\ call.pc = "waiting"
    /\ call.tool = "get_match"
    /\ IsNumber(call.args, "h2h")
    /\ call.args.m["h2h"].tenths = 0
    /\ HasParam("h2h", <<"0">>)
    /\ Len(sent) = 1

\* C14: the request of search is for search_v3 under the base, its query
\* always has q, lang and version, and it has country exactly when the
\* country argument is a non-empty string, with that string as the value.
C14_SearchCountry ==
    (Called /\ call.tool = "search") =>
        /\ RequestOrigin = "https://uitslagen.live"
        /\ RequestPath = "/footapi/search_v3"
        /\ HasKey("q") /\ HasKey("lang") /\ HasKey("version")
        /\ HasParam("q", IF IsText(call.args, "q")
                         THEN QueryEscape(call.args.m["q"].s) ELSE <<>>)
        /\ HasKey("country") <=> IsText(call.args, "country")
        /\ IsText(call.args, "country") =>
              HasParam("country", QueryEscape(call.args.m["country"].s))
\* C14 witness: search has sent a request with country=Netherlands for the
\* country argument "Netherlands".
C14_Witness ==
    /\ call.pc = "waiting"
    /\ call.tool = "search"
    /\ IsText(call.args, "country")
    /\ call.args.m["country"].s = <<"Netherlands">>
    /\ HasParam("country", <<"Netherlands">>)
    /\ Len(sent) = 1
\* search without a country argument has sent a request without the
\* country parameter.
C14_WitnessAbsent ==
    /\ call.pc = "waiting"
    /\ call.tool = "search"
    /\ Absent(call.args, "country")
    /\ ~HasKey("country")

\* The characters that mean something in a URL or a path.
Marks == {"/", "..", ".", "?", "#", " ", ":"}
\* A text none of whose pieces is such a character.
Plain(t) == \A i \in 1..Len(t) : t[i] \notin Marks
\* The id argument as the handler reads it.
IdArg == IF IsText(call.args, "id") THEN call.args.m["id"].s ELSE <<>>

\* C15 as stated: get_team_image sends one request, a HEAD and never a GET, for
\* images/teams_gs/{id}.png under the base; on status 200 it returns a Text,
\* not an error, that holds the URL requested, and on any other status an
\* Error that holds the team ID and the status code.
C15_ImageHead ==
    (Called /\ call.tool = "get_team_image") =>
        /\ call.request.method = "HEAD"
        /\ \A i \in 1..Len(sent) : sent[i].method = "HEAD"
        /\ Len(sent) <= 1
        /\ call.pc = "waiting" => (sent # <<>> /\ sent[1] = call.request)
        /\ RequestOrigin = "https://uitslagen.live"
        /\ Plain(IdArg) => RequestPath = CatalogPath("get_team_image", Str(IdArg))
        /\ (HasReturned /\ call.outcome.kind \in {"response", "readerr"}) =>
              /\ Len(sent) = 1
              /\ IF call.outcome.status = StatusOK
                 THEN /\ ~call.ret.result.isError
                      /\ Contains(ResultText, call.request.url)
                 ELSE /\ call.ret.result.isError
                      /\ Contains(ResultText, IdArg)
                      /\ Contains(ResultText, Itoa(call.outcome.status))
\* The case that breaks the claim: get_team_image was redirected on and on,
\* sent ten HEAD requests, all but the first to where the upstream pointed,
\* and returned the client's error, which holds no status.
C15_TenHeads ==
    /\ HasReturned
    /\ call.tool = "get_team_image"
    /\ Len(sent) = RedirectLimit
    /\ \A i \in 1..Len(sent) : sent[i].method = "HEAD"
    /\ sent[RedirectLimit].url = Moved
    /\ call.ret.result.isError
    /\ Str(ResultText) = "error checking image: Head \"https://example.org/moved\": "
                             \o "stopped after 10 redirects"

\* The request carries the fixed User-Agent header.
HasUserAgent ==
    /\ "User-Agent" \in DOMAIN call.request.headers
    /\ call.request.headers["User-Agent"] = "LiveScore-MCP/1.0"
\* The request carries the fixed Accept header.
HasAccept ==
    /\ "Accept" \in DOMAIN call.request.headers
    /\ call.request.headers["Accept"] = "application/json"

\* The query of the URL u, and whether it has a parameter k.
QueryOf(u) ==
    LET n == Len(UpTo(u, "?"))
    IN  IF n = Len(u) THEN <<>> ELSE SubSeq(u, n + 2, Len(u))
KeyIn(u, k) == Contains(<<"&">> \o QueryOf(u), <<"&", k, "=">>)
\* The request rq carries the fixed header h with the value v.
Carries(rq, h, v) == h \in DOMAIN rq.headers /\ rq.headers[h] = v

\* C16 as stated: every upstream request, GET or HEAD, carries lang and
\* version in its query and both the Accept and the User-Agent header.
C16_Original ==
    \A i \in 1..Len(sent) :
        /\ KeyIn(sent[i].url, "lang") /\ KeyIn(sent[i].url, "version")
        /\ Carries(sent[i], "Accept", "application/json")
        /\ Carries(sent[i], "User-Agent", UserAgent)
\* What the code sends: the first request of an invocation is the one the
\* handler built; every request carries the fixed User-Agent header; a
\* GET, which every tool but get_team_image sends, carries the Accept
\* header as well, and the first GET lang and version in its query; the
\* HEAD of get_team_image has no query and no header but User-Agent.  A
\* request that follows a redirect has the method and the headers of the
\* first and the URL the upstream named, with whatever query that has; the
\* URL before it is its Referer, unless that was https and its own is not.
C16_RequestShape ==
    sent # <<>> =>
        /\ sent[1] = call.request
        /\ HasUserAgent
        /\ call.request.method = "HEAD" <=> call.tool = "get_team_image"
        /\ call.request.method = "GET" <=> call.tool \in QueryTools
        /\ call.request.method = "GET" =>
              /\ HasKey("lang") /\ HasKey("version")
              /\ HasAccept
              /\ DOMAIN call.request.headers = {"Accept", "User-Agent"}
        /\ call.request.method = "HEAD" =>
              /\ RequestQuery = <<>>
              /\ DOMAIN call.request.headers = {"User-Agent"}
        /\ \A i \in 2..Len(sent) :
              /\ sent[i].method = call.request.method
              /\ sent[i].url \in Locations
              /\ \A h \in DOMAIN call.request.headers :
                    /\ h \in DOMAIN sent[i].headers
                    /\ sent[i].headers[h] = call.request.headers[h]
              /\ IF sent[i - 1].url[1] = "https" /\ sent[i].url[1] = "http"
                 THEN DOMAIN sent[i].headers = DOMAIN call.request.headers
                 ELSE /\ DOMAIN sent[i].headers
                            = DOMAIN call.request.headers \cup {"Referer"}
                      /\ sent[i].headers["Referer"] = Str(sent[i - 1].url)
\* The request that breaks it: get_team_image has sent its HEAD request,
\* with the User-Agent header alone and no query, and a second HEAD to
\* follow a redirect, with the first one's URL as its Referer.
C16_BareHead ==
    /\ call.pc = "waiting"
    /\ call.tool = "get_team_image"
    /\ Len(sent) = 2
    /\ sent[1] = call.request
    /\ call.request.method = "HEAD"
    /\ HasUserAgent
    /\ ~HasAccept
    /\ ~HasKey("lang")
    /\ sent[2].method = "HEAD"
    /\ sent[2].url = Moved
    /\ sent[2].headers["Referer"] = Str(call.request.url)
\* get_match has sent its GET request with both headers, lang and version.
C16_WitnessGet ==
    /\ call.pc = "waiting"
    /\ call.tool = "get_match"
    /\ sent = <<call.request>>
    /\ HasUserAgent /\ HasAccept
    /\ HasKey("lang") /\ HasKey("version")
\* A GET followed a redirect from https to http, without a Referer, and
\* from there one back to https, with one.
C16_PlainHop ==
    /\ call.request.method = "GET"
    /\ Len(sent) = 3
    /\ sent[2].url = MovedPlain
    /\ "Referer" \notin DOMAIN sent[2].headers
    /\ sent[3].url = Moved
    /\ sent[3].headers["Referer"] = Str(MovedPlain)

\* The argument a tool puts into its path or query, as the handler reads it.
ToolArg ==
    IF RequiredParam(call.tool) # "" /\ IsText(call.args, RequiredParam(call.tool))
    THEN call.args.m[RequiredParam(call.tool)].s
    ELSE <<>>
\* A text as it stands in the path of a URL: the characters that would end
\* the path are escaped, once.
InPath(t) == Str([i \in 1..Len(t) |-> EscapedPathPiece(t[i])])
\* Ten tools are registered, under ten names.
TenTools ==
    /\ Len(Registered) = 10
    /\ \A i, j \in 1..Len(Registered) : Registered[i] = Registered[j] => i = j
    /\ {Registered[i] : i \in 1..Len(Registered)} =
          {"health", "get_live_scores", "get_fixtures", "search",
           "get_league_fixtures", "get_team", "get_player", "get_match",
           "get_day_fixtures", "get_team_image"}
    /\ Tools = {Registered[i] : i \in 1..Len(Registered)}

\* C17 as stated: ten tools are registered under ten distinct names, and the
\* path every tool but health requests is its catalog template with the
\* argument in the argument's place.
C17_CatalogPaths ==
    /\ TenTools
    /\ (Called /\ call.tool # "health") =>
          RequestPath = CatalogPath(call.tool, InPath(ToolArg))
\* What holds of the code: ten tools under ten distinct names, and the
\* catalog's path for every argument without URL metacharacters.
C17_PlainPaths ==
    /\ TenTools
    /\ (Called /\ call.tool # "health" /\ Plain(ToolArg)) =>
          RequestPath = CatalogPath(call.tool, Str(ToolArg))
\* get_league_fixtures has asked for the catalog's path of the league key
\* NetherlandsEredivisie.
C17_PlainReached ==
    /\ call.pc = "waiting"
    /\ call.tool = "get_league_fixtures"
    /\ RequestPath = "/footapi/fixtures_v2/NetherlandsEredivisie_small.json"
\* get_team has asked for a path in which the id's "#" and blank are
\* escaped twice.
C17_TwiceEscaped ==
    /\ call.pc = "waiting"
    /\ call.tool = "get_team"
    /\ ToolArg = <<"x", "#", "y", " ", "z">>
    /\ RequestPath = "/footapi/team_gs/x%2523y%2520z.json"

\* C18 as stated: whatever the identifiers hold, "/", "..", "?" or "#"
\* included, the URL a tool requests has the scheme and host of the base URL
\* and a path that begins with the base path /footapi/.
C18_UnderBase ==
    (Called /\ call.tool # "health") =>
        /\ RequestOrigin = "https://uitslagen.live"
        /\ Len(call.request.url) >= 6
        /\ SubSeq(call.request.url, 4, 6) = <<"/", "footapi", "/">>
\* What holds of the code: the scheme and the host are those of the base
\* URL, and a "?" or "#" of an identifier never ends the path.
C18_SameOrigin ==
    (Called /\ call.tool # "health") =>
        /\ RequestOrigin = "https://uitslagen.live"
        /\ call.tool = "get_team_image" => RequestQuery = <<>>
        /\ call.tool \in QueryTools => HasKey("lang") /\ HasKey("version")
\* get_fixtures, called with the competition "../../x", has asked for
\* /x.json, which is outside the base path.
C18_Escaped ==
    /\ call.pc = "waiting"
    /\ call.tool = "get_fixtures"
    /\ ToolArg = <<"..", "/", "..", "/", "x">>
    /\ RequestOrigin = "https://uitslagen.live"
    /\ RequestPath = "/x.json"
    /\ sent = <<call.request>>

\* ------------------------------------------------------------------ C19

\* The transport received the request of goroutine p.
ReachedTransport(p) == resp[p].nextCalls >= 1

\* C19: only requests for /message are throttled.  A step that serves a
\* request for any other path leaves the map of entries and every bucket as
\* they were, its request never enters the middleware, holds no limiter and
\* is not answered 429; /sse and the paths no pattern matches do reach the
\* transport.  A request for /message that reached the transport had passed
\* the token check with a token.
C19_OnlyMessageThrottled ==
    /\ [](\A p \in Procs :
            /\ (req[p].pc # "idle" /\ req[p].path # MessagePath) =>
                   /\ req[p].pc = "served"
                   /\ req[p].limiter = 0
                   /\ resp[p].status # StatusTooManyRequests
                   /\ ~resp[p].hadToken
                   /\ (Mux(req[p].path) = "transport") = ReachedTransport(p)
            /\ (req[p].pc # "idle" /\ req[p].path = MessagePath) =>
                   /\ req[p].pc # "served"
                   /\ ReachedTransport(p) =>
                          /\ req[p].pc = "done"
                          /\ resp[p].hadToken)
    /\ [][\A p \in Procs :
            (req'[p] # req[p] /\ req'[p].path # MessagePath) =>
                /\ visitors' = visitors
                /\ limiters' = limiters
                /\ mu' = mu]_vars

\* C19 witness: one request for /sse was handed to the transport with no
\* entry made for it, while a request for /message of the same client was
\* rejected with 429: the client's bucket was empty and /sse was served all
\* the same.
C19_Witness ==
    \E p, q \in Procs :
        /\ req[p].pc = "served" /\ req[p].path = <<"/", "sse">>
        /\ ReachedTransport(p)
        /\ req[q].pc = "done" /\ req[q].path = MessagePath
        /\ resp[q].status = StatusTooManyRequests
        /\ ~ReachedTransport(q)

\* ------------------------------------------------------------------ C20

\* The goroutines inside a critical section of rl.mu: a request between
\* Lock and the deferred Unlock of getLimiter, the cleanup goroutine between
\* its Lock and Unlock.
InCritical ==
    {p \in Procs : req[p].pc = "locked"}
        \cup (IF sweep.pc = "scan" THEN {Sweeper} ELSE {})

\* C20: the map of entries and the entries' lastSeen are touched under the
\* lock only.  At most one goroutine is inside a critical section, and it is
\* the one that holds rl.mu; a step that inserts or deletes an entry or
\* writes a lastSeen, a step in which a request looks its entry up, and a
\* step in which the sweep examines an entry, is a step of the goroutine
\* holding rl.mu.
C20_UnderLock ==
    /\ [](/\ Cardinality(InCritical) <= 1
          /\ InCritical = (IF mu = Free THEN {} ELSE {mu}))
    /\ [][/\ visitors' # visitors =>
                /\ mu # Free
                /\ InCritical = {mu}
                /\ mu = Sweeper => (sweep.pc = "scan" /\ sweep'.todo # sweep.todo)
                /\ mu \in Procs => (req[mu].pc = "locked" /\ req'[mu].pc = "allow")
          /\ \A p \in Procs :
                (req[p].pc = "locked" /\ req'[p].pc # "locked") =>
                    (mu = p /\ mu' = Free)
          /\ sweep'.todo # sweep.todo =>
                (mu' = Sweeper /\ mu \in {Free, Sweeper})]_vars

\* C20 witness: the sweep is inside its scan, holding the lock, with the
\* entry of a client still to examine, while a request of that client waits
\* at Lock.
C20_Witness ==
    /\ sweep.pc = "scan"
    /\ mu = Sweeper
    /\ \E p \in Procs :
          /\ req[p].pc = "lock"
          /\ req[p].ip \in sweep.todo

\* C20 witness: a request is inside getLimiter, holding the lock, at a time
\* when the sweep is due and waits for the lock.
C20_WitnessRequest ==
    \E p \in Procs :
        /\ req[p].pc = "locked"
        /\ mu = p
        /\ sweep.pc = "sleep"
        /\ now >= sweep.wake

\* ------------------------------------------------------------------ C21

\* The requests of key k whose lookup is over.
LookedUp(k) ==
    {p \in Procs : req[p].ip = k
        /\ req[p].pc \in {"allow", "reserve", "respond", "done"}}

\* C21: the lookup of every request on the limited path leaves an entry for
\* its key whose lastSeen is the time of the lookup, and it comes before the
\* token check: a request is checked, and answered with either outcome, only
\* after its lookup.  So an entry is evicted only when the sweep examines it
\* more than IdleSec seconds after the latest lookup of its key, whatever
\* the outcomes of the key's requests were.
C21_LastSeenBumped ==
    /\ [](\A p \in Procs :
            /\ req[p].pc \in {"allow", "reserve"} =>
                   /\ req[p].at >= 0
                   /\ req[p].ip \in DOMAIN ref.of
                   /\ ref.of[req[p].ip].seen >= req[p].at
            /\ (req[p].pc = "done" /\ req[p].path = MessagePath) =>
                   /\ req[p].ip \in DOMAIN ref.of
                   /\ (resp[p].nextCalls = 1
                         \/ resp[p].status = StatusTooManyRequests)
            /\ req[p].pc \in {"lock", "locked"} =>
                   (req[p].at = -1 /\ resp[p] = NoResp))
    /\ [][/\ \A p \in Procs :
                (req[p].pc = "locked" /\ req'[p].pc = "allow") =>
                    /\ req'[p].ip \in DOMAIN visitors'
                    /\ visitors'[req'[p].ip].lastSeen = now
                    /\ ref'.of[req'[p].ip].seen = now
                    /\ req'[p].at = now
                    /\ resp'[p] = NoResp
          /\ \A k \in DOMAIN visitors :
                k \notin DOMAIN visitors' =>
                    /\ k \in DOMAIN ref.of
                    /\ now - ref.of[k].seen > IdleSec]_vars

\* C21 witness: the latest request of a key was rejected, IdleSec seconds
\* went by, and the sweep that then examined the key's entry left it in the
\* map.
C21_Witness ==
    \E p \in Procs :
        /\ req[p].pc = "done"
        /\ resp[p].status = StatusTooManyRequests
        /\ ~ref.of[req[p].ip].ok
        /\ ref.of[req[p].ip].at = ref.of[req[p].ip].seen
        /\ now - ref.of[req[p].ip].seen = IdleSec
        /\ sweep.started = now
        /\ req[p].ip \in DOMAIN visitors
        /\ req[p].ip \notin sweep.todo
        /\ visitors[req[p].ip].lastSeen = ref.of[req[p].ip].seen

\* C21 witness: an entry is evicted, more than IdleSec seconds after the
\* latest lookup of its key.
C21_WitnessEvicted ==
    \E k \in DOMAIN ref.of :
        /\ k \in sweep.removed
        /\ k \notin DOMAIN visitors
        /\ now - ref.of[k].seen > IdleSec

\* ------------------------------------------------------------------ C22

\* The step is the sweep's examination of the entry of key k.
Examines(k) ==
    /\ sweep.pc = "scan"
    /\ k \in sweep.todo
    /\ sweep'.todo = sweep.todo \ {k}
\* The entry of key k and its bucket are after the step what they were.
EntryKept(k) ==
    /\ k \in DOMAIN visitors'
    /\ visitors'[k] = visitors[k]
    /\ visitors[k].limiter \in DOMAIN limiters'
    /\ limiters'[visitors[k].limiter] = limiters[visitors[k].limiter]

\* C22: the sweep removes the entry it examines if and only if more than
\* IdleSec seconds have passed since its lastSeen, and leaves every other
\* entry, and the examined one if it stays, with its bucket and its lastSeen
\* as they were; taking and releasing the lock changes nothing in the map.
\* An entry leaves the map only in such a step of the sweep, and an entry
\* enters it only in the lookup of a request of its key.
C22_SweepRemovesIdleOnly ==
    [][/\ \A k \in DOMAIN visitors :
            /\ Examines(k) =>
                  /\ (k \notin DOMAIN visitors') = (now - visitors[k].lastSeen > IdleSec)
                  /\ k \in DOMAIN visitors' => EntryKept(k)
                  /\ \A j \in DOMAIN visitors \ {k} : EntryKept(j)
                  /\ DOMAIN visitors' \subseteq DOMAIN visitors
            /\ k \notin DOMAIN visitors' =>
                  (Examines(k) /\ mu = Sweeper /\ sweep'.removed = sweep.removed \cup {k})
       /\ sweep'.pc # sweep.pc => (visitors' = visitors /\ limiters' = limiters)
       /\ \A k \in DOMAIN visitors' :
            k \notin DOMAIN visitors =>
                \E p \in Procs :
                    /\ req[p].pc = "locked" /\ req[p].ip = k /\ mu = p
                    /\ req'[p].pc = "allow" /\ req'[p].fresh]_vars

\* C22 witness: one sweep cycle is through the map; it removed an entry
\* that had been idle for longer than IdleSec and left another one, seen
\* within the threshold, in the map.
C22_Witness ==
    /\ sweep.pc = "scan"
    /\ sweep.todo = {}
    /\ sweep.removed # {}
    /\ \E k \in DOMAIN visitors :
          /\ k \notin sweep.removed
          /\ now - visitors[k].lastSeen <= IdleSec

\* C22 witness: an entry examined exactly IdleSec seconds after its
\* lastSeen stays.
C22_WitnessThreshold ==
    /\ sweep.pc = "scan"
    /\ sweep.started = now
    /\ \E k \in DOMAIN visitors :
          /\ k \notin sweep.todo
          /\ now - visitors[k].lastSeen = IdleSec

\* ------------------------------------------------------------------ C23

\* The capacity of a bucket, in the units the model counts tokens in.
Capacity == Burst * RefillSec
\* The tokens bucket lim holds at time t: what it held when it was last
\* charged and one unit per second since, up to the capacity.
Available(lim, t) == Min(Capacity, lim.tokens + (t - lim.last))

\* C23: every bucket holds between 0 and Burst tokens at all times.  A new
\* bucket holds Burst tokens; an accepted request found at least one token
\* and leaves one token less than the bucket held when it was checked; a
\* rejected request found less than one token and leaves the bucket as it
\* was; and d seconds of elapsed time add d / RefillSec tokens, up to Burst.
C23_TokensInRange ==
    /\ [](\A l \in DOMAIN limiters :
            /\ limiters[l].tokens \in 0..Capacity
            /\ limiters[l].last <= now
            /\ Available(limiters[l], now) \in 0..Capacity)
    /\ [][/\ \A l \in DOMAIN limiters' :
                l \notin DOMAIN limiters =>
                    /\ limiters'[l].tokens = Capacity
                    /\ Available(limiters'[l], now) = Burst * RefillSec
          /\ \A p \in Procs :
                (req[p].pc = "reserve" /\ req'[p].pc = "respond") =>
                    LET l == req[p].limiter
                        t == req[p].t
                        had == Available(limiters[l], t)
                    IN  /\ req'[p].ok =>
                               /\ had >= RefillSec
                               /\ l \in DOMAIN limiters' =>
                                      Available(limiters'[l], t) = had - RefillSec
                        /\ ~req'[p].ok =>
                               /\ had < RefillSec
                               /\ l \in DOMAIN limiters' =>
                                      limiters'[l] = limiters[l]
                        /\ \A m \in DOMAIN limiters' \ {l} :
                               limiters'[m] = limiters[m]
          /\ \A p \in Procs :
                (req[p].pc = "respond" /\ req'[p].pc = "done") =>
                    /\ limiters' = limiters
                    /\ resp'[p].nextCalls = (IF req[p].ok THEN 1 ELSE 0)
                    /\ ~req[p].ok => resp'[p].status = StatusTooManyRequests
          /\ now' # now =>
                \A l \in DOMAIN limiters :
                    /\ l \in DOMAIN limiters'
                    /\ limiters'[l] = limiters[l]
                    /\ Available(limiters[l], now')
                          = Min(Capacity, Available(limiters[l], now) + (now' - now))]_vars

\* The case that breaks the claim: of two requests of one key the first
\* took its time at second 0 and was checked after the second, which took
\* its time a minute later; both were accepted, the check of the first set
\* the bucket's time back to 0, and so the bucket counts the minute once
\* more: it is full in the very second in which the check accepted.
C23_RefilledTwice ==
    \E p, q \in Procs, k \in DOMAIN visitors :
        /\ p # q
        /\ req[p].pc = "done" /\ req[q].pc = "done"
        /\ req[p].ip = k /\ req[q].ip = k
        /\ resp[p].nextCalls = 1 /\ resp[q].nextCalls = 1
        /\ now = RetryAfterSec
        /\ k \in DOMAIN ref.of
        /\ ref.of[k].at = now /\ ref.of[k].ok
        /\ limiters[visitors[k].limiter].last = 0
        /\ limiters[visitors[k].limiter].tokens = Capacity - 2 * RefillSec
        /\ Available(limiters[visitors[k].limiter], now) = Capacity

\* ------------------------------------------------------------------ C24

\* The requests that hold a bucket: their lookup is over, their token check
\* is still to come.
Holding == {p \in Procs : req[p].pc \in {"allow", "reserve"}}
\* The requests that went into the middleware.
InMiddleware ==
    {p \in Procs : req[p].pc \in {"lock", "locked", "allow", "reserve",
                                  "respond", "done"}}
\* The keys written out, remote address by remote address: what
\* net.SplitHostPort and the two tests of the middleware give for them.
KeyTable(r) ==
    CASE r.fwd # <<>> -> r.fwd
      [] r.fwd = <<>> /\ r.remoteAddr = <<"10.0.0.1", ":", "5000">> -> <<"10.0.0.1">>
      [] r.fwd = <<>> /\ r.remoteAddr = <<"10.0.0.2">> -> <<"10.0.0.2">>
      [] r.fwd = <<>> /\ r.remoteAddr = <<":", "5000">> -> <<":", "5000">>
      [] r.fwd = <<>> /\ r.remoteAddr = <<"fe80", ":", ":", "1">> -> <<"fe80", ":", ":", "1">>
      [] OTHER -> <<"fe80", ":", ":", "1">>

\* C24 as stated: the key is the forwarded-for value if that is not empty,
\* otherwise the host part of the remote address, or the whole remote
\* address if that cannot be split into host and port; and two requests
\* hold the same bucket if and only if their keys are equal.
C24_Original ==
    /\ \A p \in InMiddleware :
          req[p].ip =
              IF req[p].r.fwd # <<>> THEN req[p].r.fwd
              ELSE IF SplitHostPort(req[p].r.remoteAddr).err
                   THEN req[p].r.remoteAddr
                   ELSE SplitHostPort(req[p].r.remoteAddr).host
    /\ \A p, q \in Holding :
          (req[p].limiter = req[q].limiter) = (req[p].ip = req[q].ip)

\* C24 as amended: the key is the forwarded-for value if that is not empty,
\* otherwise the host part of the remote address if the address splits and
\* the host part is not empty, and otherwise the whole remote address.  At
\* any time the map holds one bucket per key and no bucket under two keys; a
\* lookup gives the request the bucket of its key; two requests that hold
\* the same bucket have equal keys, and two requests with equal keys hold
\* the same bucket unless the key's entry was removed by a sweep.
C24_KeyAndBucket ==
    /\ [](/\ \A p \in InMiddleware :
                /\ req[p].ip = KeyTable(req[p].r)
                /\ req[p].ip =
                      IF req[p].r.fwd # <<>> THEN req[p].r.fwd
                      ELSE IF SplitHostPort(req[p].r.remoteAddr).err
                              \/ SplitHostPort(req[p].r.remoteAddr).host = <<>>
                           THEN req[p].r.remoteAddr
                           ELSE SplitHostPort(req[p].r.remoteAddr).host
          /\ \A k, j \in DOMAIN visitors :
                (visitors[k].limiter = visitors[j].limiter) = (k = j)
          /\ \A p, q \in Holding :
                /\ req[p].limiter = req[q].limiter => req[p].ip = req[q].ip
                /\ (req[p].ip = req[q].ip /\ req[p].ip \notin sweep.removed) =>
                       req[p].limiter = req[q].limiter)
    /\ [][\A p \in Procs :
            (req[p].pc = "locked" /\ req'[p].pc = "allow") =>
                /\ req'[p].ip \in DOMAIN visitors'
                /\ req'[p].limiter = visitors'[req'[p].ip].limiter]_vars

\* C24 witness: two requests from different remote addresses, the bracketed
\* IPv6 address with a port and the bare one, have the same key and hold the
\* same bucket, which the first made and the second found.
C24_Witness ==
    \E p, q \in Holding :
        /\ req[p].r.remoteAddr # req[q].r.remoteAddr
        /\ req[p].r.fwd = <<>> /\ req[q].r.fwd = <<>>
        /\ req[p].ip = req[q].ip
        /\ req[p].limiter = req[q].limiter
        /\ ~req[q].fresh

\* C24 witness: a request whose remote address splits into an empty host
\* and a port is charged under the whole address.
C24_WitnessEmptyHost ==
    \E p \in Procs :
        /\ req[p].pc = "done"
        /\ ~SplitHostPort(req[p].r.remoteAddr).err
        /\ SplitHostPort(req[p].r.remoteAddr).host = <<>>
        /\ req[p].ip = <<":", "5000">>
        /\ req[p].ip \in DOMAIN visitors

\* ------------------------------------------------------------------ C25

\* The requests of key k whose lookup created an entry.
Creators(k) == {p \in LookedUp(k) : req[p].fresh}

\* C25 as stated: of the requests of one key that are on their way at the
\* same time, past their lookup, at most one has created an entry and a
\* bucket; the others found that entry and hold its bucket.
C25_Original ==
    \A k \in Keys :
        Cardinality({p \in Procs :
                        /\ req[p].ip = k
                        /\ req[p].pc \in {"allow", "reserve", "respond"}
                        /\ req[p].fresh}) <= 1
\* The case that breaks it: two requests of one key are on their way, each
\* found no entry and created one, with a bucket of its own; the sweep
\* removed the first one's entry before the second one's lookup.
C25_TwoCreators ==
    \E p, q \in Procs :
        /\ p # q
        /\ req[p].ip = req[q].ip
        /\ req[p].pc = "allow" /\ req[q].pc = "allow"
        /\ req[p].fresh /\ req[q].fresh
        /\ req[p].limiter # req[q].limiter
        /\ req[p].ip \in sweep.removed
        /\ limiters[req[q].limiter].tokens = Burst * RefillSec

\* What does hold: a lookup that finds an entry for its key takes that
\* entry's bucket and makes none; a lookup that finds no entry makes one
\* entry with one new bucket.  So unless a sweep removed the key's entry,
\* at most one of the requests of a key created an entry, all of them hold
\* the bucket the map has for the key, and each token check is made on
\* that bucket.
C25_OneEntryPerKey ==
    /\ [](\A k \in Keys :
            k \notin sweep.removed =>
                /\ Cardinality(Creators(k)) <= 1
                /\ LookedUp(k) # {} => k \in DOMAIN visitors
                /\ \A p \in LookedUp(k) :
                      req[p].pc \in {"allow", "reserve"} =>
                          req[p].limiter = visitors[k].limiter)
    /\ [][\A p \in Procs :
            LET k == req[p].ip IN
            /\ (req[p].pc = "locked" /\ req'[p].pc = "allow") =>
                  IF k \in DOMAIN visitors
                  THEN /\ visitors'[k].limiter = visitors[k].limiter
                       /\ req'[p].limiter = visitors[k].limiter
                       /\ ~req'[p].fresh
                       /\ limiters' = limiters
                  ELSE /\ req'[p].fresh
                       /\ req'[p].limiter \notin DOMAIN limiters
                       /\ visitors'[k].limiter = req'[p].limiter
                       /\ DOMAIN limiters' = DOMAIN limiters \cup {req'[p].limiter}
                       /\ \A j \in DOMAIN visitors : visitors'[j] = visitors[j]
            /\ (req[p].pc = "reserve" /\ req'[p].pc = "respond"
                  /\ k \notin sweep.removed) =>
                  /\ k \in DOMAIN visitors
                  /\ visitors[k].limiter = req[p].limiter]_vars

\* Two requests of one key, one that came straight and one
\* that came through a proxy, arrived while the key had no entry; both are
\* past their lookup, one created the entry, the other found it, and both
\* hold its bucket.
C25_Witness ==
    \E p, q \in Procs :
        /\ req[p].pc = "allow" /\ req[q].pc = "allow"
        /\ p # q
        /\ req[p].r # req[q].r
        /\ req[p].ip = req[q].ip
        /\ req[p].fresh /\ ~req[q].fresh
        /\ req[p].limiter = req[q].limiter
        /\ DOMAIN visitors = {req[p].ip}
        /\ DOMAIN limiters = {req[p].limiter}

\* Both of them were accepted, and the one bucket is two tokens short of
\* full.
C25_WitnessBothCharged ==
    \E p, q \in Procs :
        /\ p # q
        /\ req[p].pc = "done" /\ req[q].pc = "done"
        /\ req[p].ip = req[q].ip
        /\ req[p].fresh /\ ~req[q].fresh
        /\ resp[p].nextCalls = 1 /\ resp[q].nextCalls = 1
        /\ now = 0
        /\ limiters[visitors[req[p].ip].limiter].tokens = (Burst - 2) * RefillSec

\* ------------------------------------------------------------------ C26

\* The step is the token check of request p.
Checks(p) == req[p].pc = "reserve" /\ req'[p].pc = "respond"
\* The step is the answer to request p, whose token check is over.
Answers(p) == req[p].pc = "respond" /\ req'[p].pc = "done"

\* C26: every token check is made on the bucket the map has for the
\* request's key at that moment, and no two requests of one key hold
\* different buckets.
C26_CheckOnCurrentEntry ==
    /\ [](\A p, q \in Holding :
            req[p].ip = req[q].ip => req[p].limiter = req[q].limiter)
    /\ [][\A p \in Procs :
            Checks(p) =>
                /\ req[p].ip \in DOMAIN visitors
                /\ visitors[req[p].ip].limiter = req[p].limiter]_vars

\* What does hold: a token check made no more than IdleSec seconds after
\* the request's lookup is made on the bucket the map has for the key.
C26_CheckWithinThreshold ==
    [][\A p \in Procs :
         (Checks(p) /\ now - req[p].at <= IdleSec) =>
             /\ req[p].ip \in DOMAIN visitors
             /\ visitors[req[p].ip].limiter = req[p].limiter]_vars

\* The case that breaks the claim: a request looked its key up more than
\* IdleSec seconds ago and still holds the bucket it was given, a sweep has
\* removed the key's entry since, and a later request of the key was
\* accepted from the new bucket the map now has: two buckets for one key.
C26_TwoBuckets ==
    \E p, q \in Procs :
        /\ req[p].ip = req[q].ip
        /\ req[p].pc \in {"allow", "reserve"}
        /\ now - req[p].at > IdleSec
        /\ req[q].pc = "done" /\ resp[q].nextCalls = 1 /\ req[q].fresh
        /\ req[p].ip \in sweep.removed
        /\ req[p].ip \in DOMAIN visitors
        /\ visitors[req[p].ip].limiter # req[p].limiter
        /\ {visitors[req[p].ip].limiter, req[p].limiter} \subseteq DOMAIN limiters

\* ------------------------------------------------------------------ C27

\* What the limiter holds for key k: its entry and its bucket, if any, and
\* the bucket the observer keeps for it.
StateOf(k, vis, lims, rf) ==
    [entry |-> IF k \in DOMAIN vis THEN <<vis[k]>> ELSE <<>>,
     bucket |-> IF k \in DOMAIN vis /\ vis[k].limiter \in DOMAIN lims
                THEN <<lims[vis[k].limiter]>> ELSE <<>>,
     seen |-> IF k \in DOMAIN rf.of THEN <<rf.of[k]>> ELSE <<>>]
\* The step is one of a request with key j: its arrival, its taking the
\* lock, its lookup or its token check.
StepOf(j) ==
    \E p \in Procs : req'[p] # req[p] /\ req'[p].ip = j

\* C27: keys do not interfere.  No bucket belongs to two keys: the map has
\* a bucket of its own for every key, and a bucket a request holds is held
\* by requests of that key only.  The outcome of a token check is the one
\* the request's own bucket gives for the request's time.  And no step of
\* a request with key j changes the entry, the lastSeen or the bucket of
\* another key k, nor a request of k under way or the bucket it holds.  So what the
\* requests of k get is the same whatever requests of other keys come in
\* between.
C27_KeysIndependent ==
    /\ [](/\ \A k, j \in DOMAIN visitors :
                k # j => visitors[k].limiter # visitors[j].limiter
          /\ \A p \in Holding :
                /\ \A q \in Holding :
                      req[p].limiter = req[q].limiter => req[p].ip = req[q].ip
                /\ \A j \in DOMAIN visitors :
                      visitors[j].limiter = req[p].limiter => j = req[p].ip)
    /\ [][/\ \A p \in Procs :
                /\ Checks(p) =>
                       req'[p].ok
                           = (Available(limiters[req[p].limiter], req[p].t) >= RefillSec
                                \/ limiters[req[p].limiter].tokens >= RefillSec)
                /\ Answers(p) => (resp'[p].nextCalls = 1) = req[p].ok
          /\ \A k, j \in Keys :
                (k # j /\ StepOf(j)) =>
                    /\ StateOf(k, visitors', limiters', ref')
                          = StateOf(k, visitors, limiters, ref)
                    /\ \A p \in Procs :
                          (req[p].ip = k /\ req[p].pc \notin {"done", "served"}) =>
                              /\ req'[p] = req[p]
                              /\ resp'[p] = resp[p]
                              /\ p \in Holding =>
                                    limiters'[req[p].limiter]
                                        = limiters[req[p].limiter]]_vars

\* C27 witness: a request of one key has just been rejected, its bucket
\* empty, while a request of another key that ran at the same time was
\* accepted and left that key's bucket one token short of full.
C27_Witness ==
    \E p, q \in Procs :
        /\ req[p].pc = "done" /\ req[q].pc = "done"
        /\ req[p].ip # req[q].ip
        /\ {req[p].ip, req[q].ip} \subseteq DOMAIN visitors
        /\ resp[p].status = StatusTooManyRequests
        /\ resp[q].nextCalls = 1
        /\ limiters[visitors[req[p].ip].limiter].tokens < RefillSec
        /\ limiters[visitors[req[q].ip].limiter].tokens = (Burst - 1) * RefillSec
        /\ visitors[req[q].ip].lastSeen = visitors[req[p].ip].lastSeen

\* ------------------------------------------------------------------ C28

\* The bucket the observer keeps for key k.
RefBucket(k) == [tokens |-> ref.of[k].tokens, last |-> ref.of[k].last]
\* No request is between its arrival and its answer.
Quiet == \A p \in Procs : req[p].pc \in {"idle", "done", "served"}

\* C28: the sweep does not show in the outcomes: every request gets the
\* outcome that a limiter which never removes an entry gives it.
C28_SweepNotObservable ==
    \A k \in DOMAIN ref.of : ref.of[k].ok = ref.of[k].refOk

\* The case that breaks the claim: a key's entry was removed by the sweep
\* while a request of the key still held its bucket, and after that request
\* and Burst more from the new bucket were accepted in one second, the
\* limiter that never removes an entry rejects where the code accepted.
C28_OneTooMany ==
    \E k \in DOMAIN ref.of :
        /\ k \in sweep.removed
        /\ Quiet
        /\ ref.of[k].ok /\ ~ref.of[k].refOk
        /\ req[1].ip = k /\ resp[1].nextCalls = 1

\* ------------------------------------------------------------------ C29

\* The latest token check of key k was a rejection, made at least d
\* seconds before time t.
RejectedSince(k, d, t) ==
    /\ k \in DOMAIN ref.of
    /\ ~ref.of[k].ok
    /\ t - ref.of[k].at >= d

\* C29: a request whose token check is made for a time RefillSec seconds or
\* more after the latest check of its key, which was a rejection, is
\* accepted; so is one that comes RetryAfterSec seconds after it, the time
\* the rejection told the client to wait.
C29_AcceptedAfterRefill ==
    /\ RetryAfterSec >= RefillSec
    /\ [][\A p \in Procs :
            /\ (Checks(p) /\ RejectedSince(req[p].ip, RefillSec, req[p].t)) =>
                   /\ req'[p].ok
                   /\ ref'.of[req[p].ip].ok
            /\ (Answers(p) /\ req[p].ok) =>
                   /\ resp'[p].nextCalls = 1
                   /\ resp'[p].status # StatusTooManyRequests]_vars

\* C29 witness: a request was rejected with Retry-After: 60 at time 0, and
\* the next request of its key, checked 60 seconds later, is accepted.
C29_Witness ==
    \E p, q \in Procs :
        /\ req[p].pc = "done" /\ req[q].pc = "done"
        /\ req[p].ip = req[q].ip
        /\ resp[p].status = StatusTooManyRequests /\ resp[p].retryAfter = "60"
        /\ resp[q].nextCalls = 1
        /\ ref.of[req[q].ip].at = now /\ ref.of[req[q].ip].ok
        /\ now = RetryAfterSec
        /\ ticks = 1

\* C29 witness: the same after exactly the refill interval.
C29_WitnessRefill ==
    \E p, q \in Procs :
        /\ req[p].pc = "done" /\ req[q].pc = "done"
        /\ req[p].ip = req[q].ip
        /\ resp[p].status = StatusTooManyRequests
        /\ resp[q].nextCalls = 1
        /\ ref.of[req[q].ip].at = now /\ ref.of[req[q].ip].ok
        /\ now = RefillSec
        /\ ticks = 1

\* ------------------------------------------------------------------ C30

\* Request p has its outcome: accepted, or rejected with 429.
Answered(p) ==
    /\ req[p].pc = "done"
    /\ resp[p].nextCalls = 1 \/ resp[p].status = StatusTooManyRequests

\* C30: under fair scheduling the limiter does not deadlock.  Every request
\* that calls getLimiter gets the lock, leaves getLimiter with the lock
\* released, and ends with one of the two outcomes; the cleanup goroutine
\* releases the lock at the end of every scan, and after each scan sleeps
\* again.
C30_NoDeadlock ==
    /\ \A p \in Procs :
          /\ (req[p].pc = "lock") ~> (req[p].pc = "locked" /\ mu = p)
          /\ (req[p].pc = "locked") ~> (req[p].pc = "allow" /\ mu # p)
          /\ (req[p].pc = "lock") ~> Answered(p)
    /\ (mu = Sweeper) ~> (mu # Sweeper /\ sweep.pc = "sleep")
    /\ (mu # Free) ~> (mu = Free)

\* C30 witness: the cleanup goroutine holds the lock in the middle of a
\* scan while the requests of all request goroutines wait in Lock.
C30_Witness ==
    /\ sweep.pc = "scan"
    /\ mu = Sweeper
    /\ sweep.todo # {}
    /\ \A p \in Procs : req[p].pc = "lock"

====
